---- MODULE Spec2Model ----
(***************************************************************************)
(* Model of the real-time core of midish: the state list (state.c), the    *)
(* pools (pool.h), the transport phase machine (mux.c), the timeout queue  *)
(* (mdep.c) and the tracks (track.c).                                      *)
(*                                                                         *)
(* The specifications share the module.  SpecState runs statelist_update   *)
(* and statelist_outdate on one state list backed by the state pool.       *)
(* SpecMux runs the transport: start and stop requests, the callbacks of   *)
(* the clock source and of the MTC source, and the timer callback.         *)
(* SpecTimo runs timo_add, timo_del and timo_update on the timeout queue.  *)
(* SpecTrack runs the track routines on two tracks, SpecPool pool_new and  *)
(* pool_del on one pool, SpecDup statelist_dup on an updated state list,   *)
(* and SpecRev state_cancel and state_restore on one state.  SpecWait      *)
(* runs the event loop mux_mdep_wait with active sensing, SpecRearm the    *)
(* timeout queue with callbacks that schedule their timeout again,         *)
(* SpecTempo the transport with a song that changes the tempo during a     *)
(* tick, and SpecLists two state lists sharing the state pool.             *)
(***************************************************************************)
EXTENDS Integers, Sequences, FiniteSets, TLC

VARIABLES
    sl_first,       \* statelist.first: the states, head first
    sl_changed,     \* statelist.changed
    state_pool,     \* state_pool.first: the free slots, head first
    panicked,       \* panic() was called: the process is gone
    sl_ret,         \* history: slot returned by the last statelist_update (0: none)
    sl_op,          \* history: the last operation, [op, ev]
    sl_hist,        \* history: the operations since statelist_init, up to HistLen
    sl_nest,        \* history: the frames of the key of note 60 opened and closed
                    \* since statelist_init, [first, last, pat, out]
    song_tempo,     \* tick length the next song callback gives to mux_chgtempo (0: none)
    mux_phase, mux_reqphase, mux_manualstart,
    mux_ticlength, mux_curpos, mux_nextpos, mux_curtic,
    mididev_clksrc, \* a clock source device is configured
    mididev_mtcsrc, \* an MTC source device is configured
    clk_ticrate,    \* mididev_clksrc->ticrate
    clk_ticdelta,   \* mididev_clksrc->ticdelta
    mtc_run,        \* the MTC parser of the MTC source is started
    mux_op,         \* history: the last transport operation
    mux_trace,      \* history: phase before the last operation, then each
                    \* phase it passed to mux_chgphase, with the caller
    mux_elapsed,    \* history: delta given to mux_timercb since mux_startreq,
                    \* while started (START, FIRST_TIC, NEXT_TIC) on the internal timer
    mux_fired,      \* history: [at, delta]: mux_elapsed when FIRST_TIC was entered
                    \* (-1: not yet) and the delta of the callback that did it
    mux_nstart,     \* history: song_startcb calls since the last start
    mux_nmove,      \* history: song_movecb calls since the last start
    mux_chg,        \* history: mux_chgtempo was called since mux_startreq
    out_ticrate,    \* ticrate of the output device (sendclk set)
    out_ticdelta,   \* ticdelta of the output device
    mux_nclk,       \* history: clocks taken by mux_ticcb from the clock source
                    \* since the last start, while started
    mux_d0,         \* history: ticdelta of the clock source at the last start
    out_ntic,       \* history: clock bytes put to the output device by mux_sendtic
                    \* since the last start
    mux_log,        \* history: the bytes put to the devices and the song
                    \* callbacks called by the last transport operation, in order
    timo_queue,     \* the timeout queue: the timeouts linked from timo_queue, head first
    timo_val,       \* val of each timeout
    timo_set,       \* set of each timeout
    timo_abstime,
    timo_fired,     \* history: the timeouts whose callback the last timo_update
                    \* called, in call order
    timo_op,        \* history: the last timeout operation, [op, t, delta]
    timo_big,       \* history: a timo_update was given a delta of half the word or more
    timo_nops,      \* history: the number of timeout operations done
    timo_added,     \* history: the scheduled timeouts in the order of their timo_add
    timo_cb,        \* the callback of each timeout: the delta it gives to timo_add to
                    \* schedule its timeout again, 0 if it does not
    timo_seen,      \* history: what each callback of the last timo_update found,
                    \* [t, set, linked]
    trk_first,      \* first of each track
    se_next, se_prev, se_delta,  \* fields of each struct seqev, the eots included
    se_cmd,         \* ev.cmd of each struct seqev
    seqev_pool,     \* seqev_pool.first: the free seqevs, head first
    trk_op,         \* history: the last track operation, [op, o, pos, n]
    trk_nops,       \* history: the number of track operations done
    pl_first,       \* first of a pool: its free entries, head first
    pl_live,        \* the entries of the pool its user holds
    pl_itemnum,     \* itemnum of the pool
    pl_log,         \* history: the calls of pool_new and pool_del, [op, e]
    dup_first,      \* first of the statelist made by statelist_dup, head first
    dup_done,       \* history: statelist_dup was called
    dup_changed,    \* changed of the statelist made by statelist_dup
    st_links,       \* the pointers of the state lists: [first, next, prev]
    rev_st,         \* the state given to state_cancel and state_restore
    rev_out,        \* what the last of these calls returned: [n, ev]
    rev_op,         \* history: the last of these calls
    ts_last,        \* the clock reading kept by mux_mdep_wait, [sec, nsec]
    mux_wallclock,  \* the sum of the deltas given to mux_timercb
    dev_isensto,    \* isensto of each device
    dev_osensto,    \* osensto of each device
    dev_eof,        \* eof of each device
    wait_in,        \* history: the clock reading and the poll result of the last wait
    wait_delta,     \* history: the delta the last wait gave to mux_timercb, -1: none
    wait_log,       \* history: the messages logged, the bytes put and the
                    \* callbacks called by the last wait, in order
    wait_lost,      \* history: the nanoseconds ignored as huge deltas
    wait_n,         \* history: the number of waits done
    sense_iat,      \* history: mux_wallclock when isensto was last set to its start value
    sense_oat       \* history: mux_wallclock when active sensing was last put

slvars == <<sl_first, sl_changed, state_pool, sl_ret, sl_op, sl_hist, sl_nest, st_links>>
muxvars == <<mux_phase, mux_reqphase, mux_manualstart, mux_ticlength, mux_curpos,
             mux_nextpos, mux_curtic, mididev_clksrc, mididev_mtcsrc, clk_ticrate,
             clk_ticdelta, mtc_run, mux_op, mux_trace, mux_elapsed, mux_fired,
             mux_nstart, mux_nmove, mux_chg, out_ticrate, out_ticdelta,
             mux_nclk, mux_d0, out_ntic, mux_log, song_tempo>>
timovars ==
    <<timo_queue, timo_val, timo_set, timo_abstime, timo_fired, timo_op, timo_big,
      timo_nops, timo_added, timo_cb, timo_seen>>
trkvars == <<trk_first, se_next, se_prev, se_delta, se_cmd, seqev_pool, trk_op, trk_nops>>
plvars == <<pl_first, pl_live, pl_log, pl_itemnum>>
dupvars == <<dup_first, dup_done, dup_changed>>
revvars == <<rev_st, rev_out, rev_op>>
waitvars ==
    <<ts_last, mux_wallclock, dev_isensto, dev_osensto, dev_eof, wait_in, wait_delta,
      wait_log, wait_lost, wait_n, sense_iat, sense_oat>>
vars == <<slvars, muxvars, panicked, timovars, trkvars, plvars, dupvars, revvars, waitvars>>

(***************************************************************************)
(* Bounds                                                                  *)
(***************************************************************************)
MaxStates == 2          \* slots of the state pool
HistLen == 4            \* operations kept in sl_hist

(***************************************************************************)
(* Events (ev.h, ev.c)                                                     *)
(***************************************************************************)
EV_PHASE_FIRST == "FIRST"
EV_PHASE_NEXT == "NEXT"
EV_PHASE_LAST == "LAST"

STATE_NEW == "NEW"
STATE_CHANGED == "CHANGED"
STATE_BOGUS == "BOGUS"
STATE_NESTED == "NESTED"

EV_BEND_DEFAULT == 8192
EV_CAT_DEFAULT == 0
EV_NOFF_DEFAULTVEL == 100
\* the default value of a controller, from the table of controllers: 12700
\* stands for that of controller 7 and 0 for that of the others
EV_CTL_DEFVAL(ev) == IF ev.v0 = 7 THEN 12700 ELSE 0

Ev(cmd, v0, v1) == [cmd |-> cmd, dev |-> 0, ch |-> 0, v0 |-> v0, v1 |-> v1]
NoEv == Ev("NULL", 0, 0)
NoteOn60 == Ev("NON", 60, 100)
NoteOff60 == Ev("NOFF", 60, 0)

\* the event stream fed to the state list
Events ==
    { NoteOn60, NoteOff60, Ev("KAT", 60, 50),
      Ev("PC", 5, 0),
      Ev("BEND", 9000, 0), Ev("BEND", EV_BEND_DEFAULT, 0) }

EV_ISNOTE(ev) == ev.cmd \in {"NON", "NOFF", "KAT"}

\* phase of an event: set by its command and values alone
ev_phase(ev) ==
    CASE ev.cmd = "NOFF" -> {EV_PHASE_LAST}
      [] ev.cmd = "NON" -> {EV_PHASE_FIRST}
      [] ev.cmd = "KAT" -> {EV_PHASE_NEXT}
      [] ev.cmd = "BEND" -> IF ev.v0 # EV_BEND_DEFAULT
                            THEN {EV_PHASE_FIRST, EV_PHASE_NEXT}
                            ELSE {EV_PHASE_LAST}
      [] ev.cmd = "CAT" -> IF ev.v0 # EV_CAT_DEFAULT
                           THEN {EV_PHASE_FIRST, EV_PHASE_NEXT}
                           ELSE {EV_PHASE_LAST}
      [] ev.cmd = "XCTL" -> IF ev.v1 # EV_CTL_DEFVAL(ev)
                            THEN {EV_PHASE_FIRST, EV_PHASE_NEXT}
                            ELSE {EV_PHASE_LAST}
      [] OTHER -> {EV_PHASE_FIRST, EV_PHASE_LAST}

\* the two events have the same key
ev_match(st, ev) ==
    IF EV_ISNOTE(st)
    THEN EV_ISNOTE(ev) /\ st.v0 = ev.v0 /\ st.ch = ev.ch /\ st.dev = ev.dev
    ELSE st.cmd = ev.cmd /\ st.ch = ev.ch /\ st.dev = ev.dev

state_match(st, ev) == ev_match(st.ev, ev)

(***************************************************************************)
(* Pool (pool.h)                                                           *)
(***************************************************************************)
\* the free list after pool_init: the last slot is at the head
pool_init(n) == [i \in 1..n |-> n + 1 - i]

pool_del(pool, p) == <<p>> \o pool

RECURSIVE init_loop(_, _)
\* the loop of pool_init linking i entries: each pass increments o->itemnum
init_loop(i, itemnum) == IF i = 0 THEN itemnum ELSE init_loop(i - 1, itemnum + 1)

\* o->itemnum after pool_init(o, name, itemsize, n)
pool_itemnum(n) == init_loop(n, n)

RECURSIVE pool_del_all(_, _)
\* state_del of each slot of `ps`, in order
pool_del_all(pool, ps) ==
    IF ps = <<>> THEN pool
    ELSE pool_del_all(pool_del(pool, Head(ps)), Tail(ps))

(***************************************************************************)
(* State list (state.c)                                                    *)
(***************************************************************************)
Mut_statelist_add(l, st) == l \o <<st>>
\* statelist_add(o, st): the state is linked at the head
statelist_add(l, st) == <<st>> \o l

\* the pointers of the lists: first[o] is o->first of list o, next[i] is
\* st->next of slot i (0: NULL) and prev[i] is st->prev, the address of
\* o->first ([o, st |-> 0]) or of the next field of slot st ([o |-> "", st])
Lists == {"sl", "dup"}
Slots == 1..(2 * MaxStates)
NoPtr == [o |-> "", st |-> 0]
NoLinks == [first |-> [o \in Lists |-> 0], next |-> [i \in Slots |-> 0],
            prev |-> [i \in Slots |-> NoPtr]]

\* *p = v
ptr_write(h, p, v) ==
    IF p.st = 0 THEN [h EXCEPT !.first[p.o] = v] ELSE [h EXCEPT !.next[p.st] = v]

\* statelist_add(o, st) on the pointers
links_add(h, o, st) ==
    LET h1 == [h EXCEPT !.next[st] = h.first[o], !.prev[st] = [o |-> o, st |-> 0]]
        h2 == IF h.first[o] # 0
              THEN [h1 EXCEPT !.prev[h.first[o]] = [o |-> "", st |-> st]]
              ELSE h1
    IN [h2 EXCEPT !.first[o] = st]

Mut_links_rm(h, st) ==
    LET h1 == ptr_write(h, h.prev[st], h.next[st])
    IN [h1 EXCEPT !.next[st] = 0, !.prev[st] = NoPtr]
\* statelist_rm(o, st) on the pointers, then state_del(st): the fields of a
\* freed state are not read again
links_rm(h, st) ==
    LET h1 == ptr_write(h, h.prev[st], h.next[st])
        h2 == IF h.next[st] # 0 THEN [h1 EXCEPT !.prev[h.next[st]] = h.prev[st]] ELSE h1
    IN [h2 EXCEPT !.next[st] = 0, !.prev[st] = NoPtr]

RECURSIVE links_rm_all(_, _)
links_rm_all(h, ids) ==
    IF ids = <<>> THEN h ELSE links_rm_all(links_rm(h, Head(ids)), Tail(ids))

RECURSIVE links_add_all(_, _, _)
\* statelist_add of the slots `ids`, the last one first
links_add_all(h, o, ids) ==
    IF ids = <<>> THEN h
    ELSE links_add(links_add_all(h, o, Tail(ids)), o, Head(ids))

\* the pointers after an operation took list o from l to l2, having removed
\* and freed the slots `freed` and then added the new states, which are at
\* the head of l2
links_op(h, o, l, l2, freed) ==
    LET k == Len(l2) - (Len(l) - Len(freed))
    IN links_add_all(links_rm_all(h, freed), o, [i \in 1..k |-> l2[i].id])

statelist_lookup(l, ev) ==
    IF \E i \in 1..Len(l) : state_match(l[i], ev)
    THEN l[CHOOSE i \in 1..Len(l) : /\ state_match(l[i], ev)
                                    /\ \A j \in 1..(i-1) : ~state_match(l[j], ev)]
    ELSE [id |-> 0]

\* the test ending the scan of statelist_update: an open frame
Mut_state_isopen(st) == ~(st.phase = {EV_PHASE_LAST})
state_isopen(st) == ~(st.phase = {EV_PHASE_LAST}) /\ ~(STATE_BOGUS \in st.flags)

Mut_state_clearnew(st) == st
state_clearnew(st) == [st EXCEPT !.flags = @ \ {STATE_NEW}]

RECURSIVE update_scan(_, _)
\* the for(;;) loop of statelist_update over `l`: matching states that are
\* terminated or bogus are removed and freed, up to the first open match
update_scan(l, ev) ==
    IF l = <<>> THEN [kept |-> <<>>, freed |-> <<>>, rest |-> <<>>]
    ELSE LET st == Head(l) IN
         IF state_match(st, ev)
         THEN IF state_isopen(st)
              THEN [kept |-> <<>>, freed |-> <<>>,
                    rest |-> <<state_clearnew(st)>> \o Tail(l)]
              ELSE LET r == update_scan(Tail(l), ev)
                   IN [r EXCEPT !.freed = <<st.id>> \o @]
         ELSE LET r == update_scan(Tail(l), ev)
              IN [r EXCEPT !.kept = <<st>> \o @]

Mut_update_switch_nonest(flags, phase) ==
    CASE phase = {EV_PHASE_FIRST} ->
           [nest |-> flags # {STATE_NEW}, nflags |-> {STATE_NEW},
            flags |-> flags, phase |-> phase]
      [] phase \in {{EV_PHASE_NEXT}, {EV_PHASE_LAST}} ->
           IF flags = {STATE_NEW}
           THEN [nest |-> FALSE, nflags |-> {}, flags |-> flags \cup {STATE_BOGUS},
                 phase |-> (phase \cup {EV_PHASE_FIRST}) \ {EV_PHASE_NEXT}]
           ELSE [nest |-> FALSE, nflags |-> {}, flags |-> flags, phase |-> phase]
      [] phase = {EV_PHASE_FIRST, EV_PHASE_NEXT} ->
           [nest |-> FALSE, nflags |-> {}, flags |-> flags,
            phase |-> phase \ (IF flags = {STATE_NEW} THEN {EV_PHASE_NEXT}
                                                      ELSE {EV_PHASE_FIRST})]
      [] OTHER -> [nest |-> FALSE, nflags |-> {}, flags |-> flags, phase |-> phase]

Mut_update_switch_stack(flags, phase) ==
    CASE EV_PHASE_FIRST \in phase /\ EV_PHASE_NEXT \notin phase ->
           [nest |-> flags # {STATE_NEW}, nflags |-> {STATE_NEW, STATE_NESTED},
            flags |-> flags, phase |-> phase]
      [] phase \in {{EV_PHASE_NEXT}, {EV_PHASE_LAST}} ->
           IF flags = {STATE_NEW}
           THEN [nest |-> FALSE, nflags |-> {}, flags |-> flags \cup {STATE_BOGUS},
                 phase |-> (phase \cup {EV_PHASE_FIRST}) \ {EV_PHASE_NEXT}]
           ELSE [nest |-> FALSE, nflags |-> {}, flags |-> flags, phase |-> phase]
      [] OTHER ->
           [nest |-> FALSE, nflags |-> {}, flags |-> flags,
            phase |-> phase \ (IF flags = {STATE_NEW} THEN {EV_PHASE_NEXT}
                                                      ELSE {EV_PHASE_FIRST})]

\* the switch (phase) of statelist_update, on the flags of the state the scan
\* ended on: nest says that a new state, with flags nflags, is pushed for
\* the event; flags and phase are those of the state the event goes to
\* (when nest, the pushed one)
update_switch(flags, phase) ==
    CASE phase = {EV_PHASE_FIRST} ->
           [nest |-> flags # {STATE_NEW}, nflags |-> {STATE_NEW, STATE_NESTED},
            flags |-> flags, phase |-> phase]
      [] phase \in {{EV_PHASE_NEXT}, {EV_PHASE_LAST}} ->
           IF flags = {STATE_NEW}
           THEN [nest |-> FALSE, nflags |-> {}, flags |-> flags \cup {STATE_BOGUS},
                 phase |-> (phase \cup {EV_PHASE_FIRST}) \ {EV_PHASE_NEXT}]
           ELSE [nest |-> FALSE, nflags |-> {}, flags |-> flags, phase |-> phase]
      [] phase = {EV_PHASE_FIRST, EV_PHASE_NEXT} ->
           [nest |-> FALSE, nflags |-> {}, flags |-> flags,
            phase |-> phase \ (IF flags = {STATE_NEW} THEN {EV_PHASE_NEXT}
                                                      ELSE {EV_PHASE_FIRST})]
      [] OTHER -> [nest |-> FALSE, nflags |-> {}, flags |-> flags, phase |-> phase]

state_copyev(st, ev, ph) ==
    [st EXCEPT !.ev = ev, !.phase = ph, !.flags = @ \cup {STATE_CHANGED}]

\* a state fresh from state_new(): only id and flags are set
NewState(id, flags) == [id |-> id, ev |-> NoEv, phase |-> {}, flags |-> flags]

\* statelist_update(l, ev) with the free list `pool`: the list, the free
\* list, the slot returned (0 on panic) and whether pool_new() panicked
statelist_update(l, pool, ev) ==
    LET sc == update_scan(l, ev)
        found == sc.rest # <<>>
        pool1 == pool_del_all(pool, sc.freed)
        l1 == sc.kept \o sc.rest
        fail == [list |-> l1, pool |-> pool1, ret |-> 0, found |-> found, panic |-> TRUE]
    IN IF ~found /\ pool1 = <<>> THEN fail
       ELSE
       LET \* the state the loop ended on, and the list with it
           st == IF found THEN Head(sc.rest) ELSE NewState(Head(pool1), {STATE_NEW})
           l2 == IF found THEN l1 ELSE statelist_add(l1, st)
           pool2 == IF found THEN pool1 ELSE Tail(pool1)
           at == IF found THEN Len(sc.kept) + 1 ELSE 1
           sw == update_switch(st.flags, ev_phase(ev))
       IN IF sw.nest
          THEN IF pool2 = <<>> THEN [fail EXCEPT !.list = l2, !.pool = pool2]
               ELSE LET n == NewState(Head(pool2), sw.nflags)
                    IN [list |-> statelist_add(l2, state_copyev(n, ev, sw.phase)),
                        pool |-> Tail(pool2), ret |-> n.id, found |-> found,
                        panic |-> FALSE]
          ELSE [list |-> [l2 EXCEPT ![at] =
                              state_copyev([st EXCEPT !.flags = sw.flags], ev, sw.phase)],
                pool |-> pool2, ret |-> st.id, found |-> found, panic |-> FALSE]

Mut_outdate_purge(st) == EV_PHASE_LAST \in st.phase
\* the test of statelist_outdate: the state is purged
outdate_purge(st) == st.phase = {EV_PHASE_LAST}

\* what statelist_outdate does to a state it keeps
outdate_keep(st) == [st EXCEPT !.flags = @ \ {STATE_CHANGED}]

RECURSIVE outdate_list(_)
outdate_list(l) ==
    IF l = <<>> THEN [list |-> <<>>, freed |-> <<>>]
    ELSE LET r == outdate_list(Tail(l)) IN
         IF outdate_purge(Head(l))
         THEN [r EXCEPT !.freed = <<Head(l).id>> \o @]
         ELSE [r EXCEPT !.list = <<outdate_keep(Head(l))>> \o @]

\* statelist_outdate(l) with the list's changed flag and the free list
statelist_outdate(l, changed, pool) ==
    IF ~changed THEN [list |-> l, changed |-> changed, pool |-> pool, freed |-> <<>>]
    ELSE LET r == outdate_list(l)
         IN [list |-> r.list, changed |-> FALSE, pool |-> pool_del_all(pool, r.freed),
             freed |-> r.freed]

Op(op, ev) == [op |-> op, ev |-> ev]
Hist(h, o) ==
    IF Len(h) < HistLen /\ h # <<Op("more", NoEv)>> THEN Append(h, o)
    ELSE <<Op("more", NoEv)>>

\* history of the frames of the key of note 60: `first` events of phase
\* FIRST, then `last` events of phase LAST for that key, with events of other
\* keys and outdates anywhere (pat "F", then "L"); any other order of the
\* events of that key gives pat "X".  `out`: the last operation is an outdate
Nest(n, o) ==
    IF o.op = "outdate" THEN [n EXCEPT !.out = TRUE]
    ELSE IF ~ev_match(NoteOn60, o.ev) THEN [n EXCEPT !.out = FALSE]
    ELSE IF ev_phase(o.ev) = {EV_PHASE_FIRST} /\ n.pat = "F"
         THEN [n EXCEPT !.first = @ + 1, !.out = FALSE]
    ELSE IF ev_phase(o.ev) = {EV_PHASE_LAST} /\ n.pat \in {"F", "L"} /\ n.last < n.first
         THEN [n EXCEPT !.last = @ + 1, !.pat = "L", !.out = FALSE]
    ELSE [n EXCEPT !.pat = "X", !.out = FALSE]

\* statelist_init() and state_pool_init(size)
InitPoolWith(size, hist, nest) ==
    /\ sl_first = <<>>
    /\ sl_changed = FALSE
    /\ state_pool = pool_init(size)
    /\ panicked = FALSE
    /\ sl_ret = 0
    /\ sl_op = Op("init", NoEv)
    /\ sl_hist = hist
    /\ sl_nest = nest
    /\ dup_first = <<>>
    /\ dup_done = FALSE
    /\ dup_changed = FALSE
    /\ st_links = NoLinks

InitPool(size) ==
    InitPoolWith(size, <<>>, [first |-> 0, last |-> 0, pat |-> "F", out |-> FALSE])

InitS == InitPool(MaxStates)

\* the states of src are copied into new states, each added at the head of o
RECURSIVE dup_loop(_, _, _)
dup_loop(o, pool, src) ==
    IF src = <<>> THEN [list |-> o, pool |-> pool, panic |-> FALSE]
    ELSE IF pool = <<>> THEN [list |-> o, pool |-> pool, panic |-> TRUE]
    ELSE LET i == Head(src)
             n == [id |-> Head(pool), ev |-> i.ev, phase |-> i.phase, flags |-> i.flags]
         IN dup_loop(statelist_add(o, n), Tail(pool), Tail(src))

\* statelist_dup(o, src) with the free list `pool`
statelist_dup(pool, src) == dup_loop(<<>>, pool, src)

\* statelist_dup(o, &l), l being the list that was updated and o a list
\* that holds no state
DupList ==
    /\ ~panicked
    /\ dup_first = <<>>
    /\ LET r == statelist_dup(state_pool, sl_first)
       IN /\ dup_first' = r.list
          /\ state_pool' = r.pool
          /\ panicked' = r.panic
          /\ st_links' = links_op(st_links, "dup", <<>>, r.list, <<>>)
    /\ dup_done' = TRUE
    /\ dup_changed' = FALSE
    /\ UNCHANGED <<sl_first, sl_changed, sl_ret, sl_op, sl_hist, sl_nest, muxvars, timovars,
                   trkvars, plvars, revvars, waitvars>>

\* the first statelist_dup
Dup == ~dup_done /\ DupList

Update(ev) ==
    /\ ~panicked
    /\ LET r == statelist_update(sl_first, state_pool, ev)
       IN /\ sl_first' = r.list
          /\ state_pool' = r.pool
          /\ sl_ret' = r.ret
          /\ panicked' = r.panic
          /\ sl_changed' = IF r.panic THEN sl_changed ELSE TRUE
          /\ st_links' = links_op(st_links, "sl", sl_first, r.list,
                                  update_scan(sl_first, ev).freed)
    /\ sl_op' = Op("update", ev)
    /\ sl_hist' = Hist(sl_hist, Op("update", ev))
    /\ sl_nest' = Nest(sl_nest, Op("update", ev))
    /\ UNCHANGED <<muxvars, timovars, trkvars, plvars, dupvars, revvars, waitvars>>

Outdate ==
    /\ ~panicked
    /\ LET r == statelist_outdate(sl_first, sl_changed, state_pool)
       IN /\ sl_first' = r.list
          /\ sl_changed' = r.changed
          /\ state_pool' = r.pool
          /\ st_links' = links_op(st_links, "sl", sl_first, r.list, r.freed)
    /\ sl_op' = Op("outdate", NoEv)
    /\ sl_hist' = Hist(sl_hist, Op("outdate", NoEv))
    /\ sl_nest' = Nest(sl_nest, Op("outdate", NoEv))
    /\ sl_ret' = 0
    /\ UNCHANGED <<panicked, muxvars, timovars, trkvars, plvars, dupvars, revvars, waitvars>>


NextState == (\E ev \in Events : Update(ev)) \/ Outdate

\* statelist_update(o, ev), o being the list made by statelist_dup
DupUpdate(ev) ==
    /\ ~panicked
    /\ dup_done
    /\ LET r == statelist_update(dup_first, state_pool, ev)
       IN /\ dup_first' = r.list
          /\ state_pool' = r.pool
          /\ panicked' = r.panic
          /\ dup_changed' = IF r.panic THEN dup_changed ELSE TRUE
          /\ st_links' = links_op(st_links, "dup", dup_first, r.list,
                                  update_scan(dup_first, ev).freed)
    /\ sl_op' = Op("dup_update", ev)
    /\ sl_ret' = 0
    /\ UNCHANGED <<sl_first, sl_changed, sl_hist, sl_nest, dup_done, muxvars, timovars,
                   trkvars, plvars, revvars, waitvars>>

\* statelist_outdate(o), o being the list made by statelist_dup
DupOutdate ==
    /\ ~panicked
    /\ dup_done
    /\ LET r == statelist_outdate(dup_first, dup_changed, state_pool)
       IN /\ dup_first' = r.list
          /\ dup_changed' = r.changed
          /\ state_pool' = r.pool
          /\ st_links' = links_op(st_links, "dup", dup_first, r.list, r.freed)
    /\ sl_op' = Op("dup_outdate", NoEv)
    /\ sl_ret' = 0
    /\ UNCHANGED <<sl_first, sl_changed, sl_hist, sl_nest, dup_done, panicked, muxvars,
                   timovars, trkvars, plvars, revvars, waitvars>>

\* the slots of the states of l, head first
StateIds(l) == [i \in 1..Len(l) |-> l[i].id]

\* statelist_empty(o): every state is removed and freed, head first
statelist_empty(l, pool) == [list |-> <<>>, pool |-> pool_del_all(pool, StateIds(l))]

\* statelist_empty(o), o being the list made by statelist_dup
DupEmpty ==
    /\ ~panicked
    /\ dup_done
    /\ LET r == statelist_empty(dup_first, state_pool)
       IN /\ dup_first' = r.list
          /\ state_pool' = r.pool
          /\ st_links' = links_op(st_links, "dup", dup_first, r.list, StateIds(dup_first))
    /\ sl_op' = Op("dup_empty", NoEv)
    /\ sl_ret' = 0
    /\ UNCHANGED <<sl_first, sl_changed, sl_hist, sl_nest, dup_done, dup_changed, panicked,
                   muxvars, timovars, trkvars, plvars, revvars, waitvars>>

\* statelist_empty(&l), l being the list that was updated
Empty ==
    /\ ~panicked
    /\ LET r == statelist_empty(sl_first, state_pool)
       IN /\ sl_first' = r.list
          /\ state_pool' = r.pool
          /\ st_links' = links_op(st_links, "sl", sl_first, r.list, StateIds(sl_first))
    /\ sl_op' = Op("empty", NoEv)
    /\ sl_hist' = Hist(sl_hist, Op("empty", NoEv))
    /\ sl_nest' = [sl_nest EXCEPT !.pat = "X", !.out = FALSE]
    /\ sl_ret' = 0
    /\ UNCHANGED <<sl_changed, panicked, muxvars, timovars, trkvars, plvars, dupvars,
                   revvars, waitvars>>

(***************************************************************************)
(* Properties of the state list                                            *)
(***************************************************************************)
Upd(ev) == Op("update", ev)
OutdateOp == Op("outdate", NoEv)

InList(l, id) == \E i \in 1..Len(l) : l[i].id = id
StateById(l, id) == l[CHOOSE i \in 1..Len(l) : l[i].id = id]
\* the state returned by the last statelist_update
Returned == StateById(sl_first, sl_ret)
\* the positions of the states of `l` that match `ev` and are not terminated
OpenMatches(l, ev) ==
    {i \in 1..Len(l) : state_match(l[i], ev) /\ l[i].phase # {EV_PHASE_LAST}}
\* no state of `l` is an open, non-bogus frame for the key of `ev`
NoOpenMatch(l, ev) ==
    \A i \in OpenMatches(l, ev) : STATE_BOGUS \in l[i].flags

\* C1: after any updates followed by statelist_outdate, no state left has
\* phase exactly LAST, none has the CHANGED flag, and every state whose phase
\* was anything else (FIRST|LAST included) is still in the list, unchanged
\* but for CHANGED.
C1_OutdatePurgesLast ==
    [][ sl_op' = OutdateOp =>
          /\ \A i \in 1..Len(sl_first') :
                /\ sl_first'[i].phase # {EV_PHASE_LAST}
                /\ STATE_CHANGED \notin sl_first'[i].flags
          /\ \A i \in 1..Len(sl_first) :
                sl_first[i].phase # {EV_PHASE_LAST} =>
                    /\ InList(sl_first', sl_first[i].id)
                    /\ StateById(sl_first', sl_first[i].id) =
                          [sl_first[i] EXCEPT !.flags = @ \ {STATE_CHANGED}]
      ]_vars

\* a note is released, a program change is seen, and the outdate purges the
\* first and keeps the second
C1_Witness ==
    /\ sl_hist = <<Upd(NoteOn60), Upd(NoteOff60), Upd(Ev("PC", 5, 0)), OutdateOp>>
    /\ Len(sl_first) = 1
    /\ sl_first[1].phase = {EV_PHASE_FIRST, EV_PHASE_LAST}

\* C2: an event of phase NEXT or LAST that finds no open matching state (no
\* match, or only terminated or bogus ones) yields a state flagged BOGUS and
\* NEW whose phase has FIRST and not NEXT; a note-off on the empty list yields
\* BOGUS|NEW with phase FIRST|LAST.
C2_BogusFrame ==
    [][ \A ev \in Events :
          (/\ sl_op' = Upd(ev)
           /\ ~panicked'
           /\ ev_phase(ev) \in {{EV_PHASE_NEXT}, {EV_PHASE_LAST}}
           /\ NoOpenMatch(sl_first, ev))
          => /\ InList(sl_first', sl_ret')
             /\ {STATE_BOGUS, STATE_NEW} \subseteq Returned'.flags
             /\ EV_PHASE_FIRST \in Returned'.phase
             /\ EV_PHASE_NEXT \notin Returned'.phase
             /\ (ev = NoteOff60 /\ sl_first = <<>>) =>
                   /\ Returned'.phase = {EV_PHASE_FIRST, EV_PHASE_LAST}
                   /\ Returned'.flags = {STATE_BOGUS, STATE_NEW, STATE_CHANGED}
      ]_vars

\* a key aftertouch finds only the bogus state of an earlier one
C2_Witness ==
    /\ sl_hist = <<Upd(Ev("KAT", 60, 50)), Upd(Ev("KAT", 60, 50))>>
    /\ Len(sl_first) = 1
    /\ {STATE_BOGUS, STATE_NEW} \subseteq Returned.flags
    /\ Returned.phase = {EV_PHASE_FIRST}

\* C3 (as claimed): at most one non-terminated state of the list matches any
\* given event key.
C3_OneOpenPerKey ==
    \A ev \in Events : Cardinality(OpenMatches(sl_first, ev)) <= 1

\* C3 (amended): at most one non-terminated state without the NESTED flag
\* matches any given event key; the other open states of the key were pushed
\* by a FIRST on an open frame and carry NESTED.
C3_OneOpenPerKeyButNested ==
    \A ev \in Events :
        Cardinality({i \in OpenMatches(sl_first, ev) :
                        STATE_NESTED \notin sl_first[i].flags}) <= 1

\* two open frames of one key, the newer one nested
C3_Witness ==
    /\ Len(sl_first) >= 2
    /\ OpenMatches(sl_first, NoteOn60) = {1, 2}
    /\ STATE_NESTED \in sl_first[1].flags
    /\ STATE_NESTED \notin sl_first[2].flags

\* C4: after every statelist_update the state returned is the head of the
\* list.
C4_TouchedIsHead ==
    (sl_op.op = "update" /\ ~panicked) =>
        (sl_first # <<>> /\ sl_first[1].id = sl_ret)

\* C5: from the empty list, NOTE_ON then the matching NOTE_OFF go to the same
\* state: the lookup between them finds it, after the second update it has
\* NEW cleared, and after statelist_outdate the list is empty.
C5_NoteRoundTrip ==
    /\ sl_hist = <<Upd(NoteOn60)>> =>
          /\ statelist_lookup(sl_first, NoteOn60).id # 0
          /\ statelist_lookup(sl_first, NoteOn60).id = sl_ret
          /\ sl_ret = Head(pool_init(MaxStates))
    /\ sl_hist = <<Upd(NoteOn60), Upd(NoteOff60)>> =>
          /\ Len(sl_first) = 1
          /\ statelist_lookup(sl_first, NoteOn60).id = Head(pool_init(MaxStates))
          /\ sl_ret = Head(pool_init(MaxStates))
          /\ STATE_NEW \notin statelist_lookup(sl_first, NoteOn60).flags
    /\ sl_hist = <<Upd(NoteOn60), Upd(NoteOff60), OutdateOp>> =>
          /\ sl_first = <<>>
          /\ state_pool = pool_init(MaxStates)

C5_Witness ==
    /\ sl_hist = <<Upd(NoteOn60), Upd(NoteOff60), OutdateOp>>
    /\ sl_first = <<>>

\* C6: after statelist_update of an event of phase FIRST+LAST, exactly one
\* state matches its key, that state has phase FIRST|LAST, and no state got
\* the NESTED flag.
C6_StatelessReplaces ==
    [][ \A ev \in Events :
          (sl_op' = Upd(ev) /\ ~panicked'
              /\ ev_phase(ev) = {EV_PHASE_FIRST, EV_PHASE_LAST})
          => /\ Cardinality({i \in 1..Len(sl_first') : state_match(sl_first'[i], ev)}) = 1
             /\ Returned'.phase = {EV_PHASE_FIRST, EV_PHASE_LAST}
             /\ Returned'.ev = ev
             /\ \A i \in 1..Len(sl_first') :
                   STATE_NESTED \in sl_first'[i].flags =>
                       /\ InList(sl_first, sl_first'[i].id)
                       /\ STATE_NESTED \in StateById(sl_first, sl_first'[i].id).flags
      ]_vars

\* a program change updates the state of an earlier one
C6_Witness ==
    /\ sl_hist = <<Upd(Ev("PC", 5, 0)), OutdateOp, Upd(Ev("PC", 5, 0))>>
    /\ Len(sl_first) = 1
    /\ sl_first[1].flags = {STATE_CHANGED}
    /\ sl_first[1].phase = {EV_PHASE_FIRST, EV_PHASE_LAST}

(***************************************************************************)
(* Transport (mux.c)                                                       *)
(***************************************************************************)
MUX_STARTWAIT == 0
MUX_START == 1
MUX_FIRST == 2
MUX_NEXT == 3
MUX_STOP == 4

MUX_START_DELAY == 8000000      \* 24000000UL / 3
DEFAULT_USEC24 == 500000        \* TEMPO_TO_USEC24(DEFAULT_TEMPO, DEFAULT_TPB)
DEFAULT_TPU == 96

MaxElapsed == 10000000  \* delta given to mux_timercb after one mux_startreq
MaxTic == 3             \* mux_curtic under ticks that the timer does not drive

\* deltas of the timer and of the MTC ticks, in 24ths of a microsecond
Deltas == {250000, 1250000, 3000000}
\* tick lengths given to mux_chgtempo
Tempos == {DEFAULT_USEC24, 750000}
\* ticrate of the clock source device
Rates == {48, DEFAULT_TPU, 192}
\* offsets within the tick returned by song_gotocb(usong, LOC_MTC, mtcpos)
Offsets == {0, 250000, 750000}

\* the transport as a record, for the routines below
Mux ==
    [phase |-> mux_phase, reqphase |-> mux_reqphase, manualstart |-> mux_manualstart,
     ticlength |-> mux_ticlength, curpos |-> mux_curpos, nextpos |-> mux_nextpos,
     curtic |-> mux_curtic, clksrc |-> mididev_clksrc, mtcsrc |-> mididev_mtcsrc,
     ticrate |-> clk_ticrate, ticdelta |-> clk_ticdelta,
     outrate |-> out_ticrate, outdelta |-> out_ticdelta, log |-> <<>>,
     trace |-> <<[ph |-> mux_phase, by |-> "pre"]>>,
     nstart |-> mux_nstart, nmove |-> mux_nmove, nclk |-> mux_nclk, d0 |-> mux_d0,
     ntic |-> out_ntic, songtempo |-> song_tempo,
     panic |-> FALSE]

\* an entry of the history of the operation: `what` put to, or called on, `who`
Log(m, who, what) == [m EXCEPT !.log = Append(@, [dev |-> who, msg |-> what])]

\* mididev_list: the clock source device when one is configured, then an
\* output device with sendclk set and a device with sendclk clear
DevList(m) == IF m.clksrc THEN <<"clk", "out", "mute">> ELSE <<"out", "mute">>
\* i->sendclk: the clock source device has it set too
dev_sendclk(d) == d \in {"clk", "out"}
dev_ticrate(m, d) ==
    CASE d = "clk" -> m.ticrate [] d = "out" -> m.outrate [] OTHER -> DEFAULT_TPU
dev_ticdelta(m, d) ==
    CASE d = "clk" -> m.ticdelta [] d = "out" -> m.outdelta [] OTHER -> DEFAULT_TPU
dev_setdelta(m, d, v) ==
    CASE d = "clk" -> [m EXCEPT !.ticdelta = v]
      [] d = "out" -> [m EXCEPT !.outdelta = v]
      [] OTHER -> m

Mut_sendclk_to(m, d) == dev_sendclk(d)
\* the test of mux_sendtic, mux_sendstart and mux_sendstop on device `d`
sendclk_to(m, d) == dev_sendclk(d) /\ ~(m.clksrc /\ d = "clk")

\* history of mididev_puttic called by mux_sendtic on device `d`
PutTic(m, d) == [m EXCEPT !.ntic = IF d = "out" THEN @ + 1 ELSE @]

RECURSIVE Mut_sendtic_put(_, _)
Mut_sendtic_put(m, d) ==
    IF dev_ticdelta(m, d) > DEFAULT_TPU
    THEN Mut_sendtic_put(Log(dev_setdelta(PutTic(m, d), d, dev_ticdelta(m, d) - DEFAULT_TPU), d, "tic"), d)
    ELSE m

RECURSIVE sendtic_put(_, _)
\* the while loop of mux_sendtic on device `d`; mux_ticrate is DEFAULT_TPU
sendtic_put(m, d) ==
    IF dev_ticdelta(m, d) >= DEFAULT_TPU
    THEN sendtic_put(Log(dev_setdelta(PutTic(m, d), d, dev_ticdelta(m, d) - DEFAULT_TPU), d, "tic"), d)
    ELSE m

\* the body of the loop of mux_sendtic ("tic"), mux_sendstart ("start") or
\* mux_sendstop ("stop") for device `d`
dev_send(m, d, what) ==
    IF ~sendclk_to(m, d) THEN m
    ELSE CASE what = "tic" ->
                LET m1 == sendtic_put(m, d)
                IN dev_setdelta(m1, d, dev_ticdelta(m1, d) + dev_ticrate(m, d))
           [] what = "start" ->
                Log(Log(dev_setdelta(m, d, dev_ticrate(m, d)), d, "tic"), d, "start")
           [] OTHER -> Log(m, d, "stop")

RECURSIVE devs_send(_, _, _)
devs_send(m, ds, what) ==
    IF ds = <<>> THEN m ELSE devs_send(dev_send(m, Head(ds), what), Tail(ds), what)

mux_sendtic(m) == devs_send(Log(m, "mux", "sendtic"), DevList(m), "tic")
mux_sendstart(m) == devs_send(m, DevList(m), "start")
mux_sendstop(m) == devs_send(m, DevList(m), "stop")

\* mux_chgphase(phase), called by `by`; the history counts the song
\* callbacks since the last start
mux_chgphase(m, phase, by) ==
    [m EXCEPT !.phase = phase, !.trace = Append(@, [ph |-> phase, by |-> by]),
              !.nstart = IF phase = MUX_START THEN 0 ELSE @,
              !.nmove = IF phase = MUX_START THEN 0 ELSE @,
              !.nclk = IF phase = MUX_START THEN 0 ELSE @,
              !.ntic = IF phase = MUX_START THEN 0 ELSE @,
              !.d0 = IF phase = MUX_START THEN m.ticdelta ELSE @]

Mut_chgtempo(m, ticlength) ==
    [m EXCEPT !.nextpos = @ + ticlength - m.ticlength, !.ticlength = ticlength]

mux_chgtempo(m, ticlength) ==
    LET m1 == IF m.phase = MUX_FIRST \/ m.phase = MUX_NEXT
              THEN [m EXCEPT !.nextpos = @ + ticlength - m.ticlength]
              ELSE m
    IN [m1 EXCEPT !.ticlength = ticlength]

Mut_ticcb_phase_keep(m) ==
    IF m.phase = MUX_FIRST THEN mux_chgphase(m, MUX_NEXT, "ticcb")
    ELSE IF m.phase = MUX_START
    THEN mux_chgphase([m EXCEPT !.curpos = 0], MUX_FIRST, "ticcb")
    ELSE m

Mut_ticcb_phase(m) ==
    IF m.phase \in {MUX_FIRST, MUX_START}
    THEN mux_chgphase([m EXCEPT !.curpos = 0, !.nextpos = m.ticlength], MUX_NEXT, "ticcb")
    ELSE m
\* the phase change of mux_ticcb
ticcb_phase(m) ==
    IF m.phase = MUX_FIRST THEN mux_chgphase(m, MUX_NEXT, "ticcb")
    ELSE IF m.phase = MUX_START
    THEN mux_chgphase([m EXCEPT !.curpos = 0, !.nextpos = m.ticlength], MUX_FIRST, "ticcb")
    ELSE m

Mut_ticcb_song(m) ==
    IF m.phase = MUX_NEXT
    THEN mux_sendtic(Log([m EXCEPT !.curtic = @ + 1, !.nmove = @ + 1], "song", "movecb"))
    ELSE IF m.phase = MUX_FIRST
    THEN mux_sendtic(Log([m EXCEPT !.curtic = 0, !.nstart = @ + 1], "song", "startcb"))
    ELSE m

\* song_movecb or song_startcb: the song may call mux_chgtempo when the tick
\* it plays holds a tempo change
song_cb(m, what) ==
    LET m1 == Log(m, "song", what)
    IN IF m1.songtempo # 0
       THEN mux_chgtempo(Log([m1 EXCEPT !.songtempo = 0], "mux", "chgtempo"), m1.songtempo)
       ELSE m1

\* the song callbacks of mux_ticcb
ticcb_song(m) ==
    IF m.phase = MUX_NEXT
    THEN song_cb(mux_sendtic([m EXCEPT !.curtic = @ + 1, !.nmove = @ + 1]), "movecb")
    ELSE IF m.phase = MUX_FIRST
    THEN song_cb(mux_sendtic([m EXCEPT !.curtic = 0, !.nstart = @ + 1]), "startcb")
    ELSE m

Mut_ticcb(m) ==
    IF m.clksrc /\ m.ticdelta < m.ticrate
    THEN [m EXCEPT !.ticdelta = @ + DEFAULT_TPU,
                   !.nclk = IF m.phase \in {MUX_START, MUX_FIRST, MUX_NEXT} THEN @ + 1 ELSE @]
    ELSE LET m1 == ticcb_song(ticcb_phase(m))
         IN IF ~m.clksrc THEN m1
            ELSE [m1 EXCEPT !.ticdelta = @ - m.ticrate + DEFAULT_TPU,
                            !.nclk = @ + 1]

RECURSIVE mux_ticcb(_)
mux_ticcb(m) ==
    IF m.clksrc /\ m.ticdelta < m.ticrate
    THEN [m EXCEPT !.ticdelta = @ + DEFAULT_TPU,
                   !.nclk = IF m.phase \in {MUX_START, MUX_FIRST, MUX_NEXT} THEN @ + 1 ELSE @]
    ELSE LET m1 == ticcb_song(ticcb_phase(m))
         IN IF ~m.clksrc THEN m1
            ELSE mux_ticcb([m1 EXCEPT !.ticdelta = @ - m.ticrate])

Mut_startcb(m) ==
    LET m1 == IF m.clksrc THEN [m EXCEPT !.curpos = 0, !.nextpos = m.ticlength]
              ELSE m
    IN mux_sendstart(mux_chgphase(m1, MUX_START, "startcb"))

mux_startcb(m) ==
    IF m.phase # MUX_STARTWAIT THEN m
    ELSE LET m1 == IF m.clksrc THEN [m EXCEPT !.curpos = 0, !.nextpos = m.ticlength]
                   ELSE m
         IN mux_sendstart(mux_chgphase(m1, MUX_START, "startcb"))

Mut_stopcb(m) ==
    LET m1 == IF m.phase >= MUX_START /\ m.phase <= MUX_NEXT THEN mux_sendstop(m) ELSE m
    IN Log(mux_chgphase(m1, MUX_STOP, "stopcb"), "song", "stopcb")

mux_stopcb(m) ==
    LET m1 == IF m.phase >= MUX_START /\ m.phase <= MUX_NEXT THEN mux_sendstop(m) ELSE m
    IN Log(mux_chgphase(m1, m.reqphase, "stopcb"), "song", "stopcb")

mux_mtcstop(m) ==
    IF m.clksrc THEN m
    ELSE IF m.phase >= MUX_START THEN mux_stopcb(m)
    ELSE m

\* mux_mtcstart(mtcpos), song_gotocb() returning `off`
mux_mtcstart(m, off) ==
    LET m1 == IF m.phase >= MUX_START /\ m.phase <= MUX_NEXT THEN mux_mtcstop(m) ELSE m
    IN IF m1.phase = MUX_STOP THEN m1
       ELSE IF m1.mtcsrc
       THEN LET m2 == [m1 EXCEPT !.curpos = off, !.nextpos = m1.ticlength]
            IN IF m2.curpos >= m2.nextpos THEN [m2 EXCEPT !.panic = TRUE]
               ELSE mux_startcb(m2)
       ELSE mux_startcb(m1)

Mut_mtctick_fire(m) == TRUE

\* mux_mtctick triggers the tick
mtctick_fire(m) == m.manualstart = 0 \/ m.phase # MUX_START

RECURSIVE mtctick_loop(_)
\* the while loop of mux_mtctick
mtctick_loop(m) ==
    IF m.curpos >= m.nextpos
    THEN LET m1 == [m EXCEPT !.curpos = @ - m.nextpos, !.nextpos = m.ticlength]
         IN mtctick_loop(IF mtctick_fire(m1) THEN mux_ticcb(m1) ELSE m1)
    ELSE m

Mut_mtctick(m, delta) ==
    LET m0 == [m EXCEPT !.curpos = @ + delta]
        m1 == [m0 EXCEPT !.curpos = @ - m0.nextpos, !.nextpos = m0.ticlength]
    IN IF m0.curpos >= m0.nextpos
       THEN (IF mtctick_fire(m1) THEN mux_ticcb(m1) ELSE m1)
       ELSE m0
mux_mtctick(m, delta) == mtctick_loop([m EXCEPT !.curpos = @ + delta])

Mut_timer_start(m, delta) ==
    LET m1 == [m EXCEPT !.curpos = @ + delta]
    IN IF m1.curpos > m1.nextpos
       THEN mux_mtctick([m1 EXCEPT !.curpos = 0, !.nextpos = 0], 0)
       ELSE m1
\* case MUX_START of mux_timercb
timer_start(m, delta) ==
    LET m1 == [m EXCEPT !.curpos = @ + delta]
    IN IF m1.curpos >= m1.nextpos
       THEN mux_mtctick([m1 EXCEPT !.curpos = 0, !.nextpos = 0], 0)
       ELSE m1

Mut_timercb(m, delta) ==
    CASE m.phase = MUX_STARTWAIT ->
            IF m.manualstart = 0 THEN [m EXCEPT !.panic = TRUE] ELSE m
      [] m.phase = MUX_START -> timer_start(m, delta)
      [] m.phase \in {MUX_FIRST, MUX_NEXT} -> mux_mtctick(m, delta)
      [] OTHER -> m
\* the transport part of mux_timercb
mux_timercb(m, delta) ==
    IF ~m.mtcsrc /\ ~m.clksrc
    THEN CASE m.phase = MUX_STARTWAIT ->
                IF m.manualstart = 0 THEN [m EXCEPT !.panic = TRUE] ELSE m
           [] m.phase = MUX_START -> timer_start(m, delta)
           [] m.phase \in {MUX_FIRST, MUX_NEXT} -> mux_mtctick(m, delta)
           [] OTHER -> m
    ELSE m

Mut_startreq_wait(m) == m
\* mux_startreq once in STARTWAIT: the start is generated, or waited for
startreq_wait(m) ==
    IF ~m.clksrc /\ ~m.mtcsrc
    THEN mux_mtcstart([m EXCEPT !.curpos = 0, !.nextpos = MUX_START_DELAY], 0)
    ELSE [m EXCEPT !.curpos = 0, !.nextpos = m.ticlength]

mux_startreq(m, manualstart) ==
    LET m1 == [m EXCEPT !.manualstart = manualstart, !.reqphase = MUX_STARTWAIT]
    IN IF m1.phase # MUX_STOP THEN [m1 EXCEPT !.panic = TRUE]
       ELSE startreq_wait(mux_chgphase(m1, MUX_STARTWAIT, "startreq"))

mux_stopreq(m) ==
    LET m1 == [m EXCEPT !.reqphase = MUX_STOP]
    IN IF m1.phase < MUX_STOP THEN mux_stopcb(m1) ELSE m1

\* the state after mux_open()
MuxInit(clk, mtc, rate, orate) ==
    /\ mux_phase = MUX_STOP
    /\ mux_reqphase = MUX_STOP
    /\ mux_manualstart = 1
    /\ mux_ticlength = DEFAULT_USEC24
    /\ mux_curpos = 0
    /\ mux_nextpos = 0
    /\ mux_curtic = 0
    /\ mididev_clksrc = clk
    /\ mididev_mtcsrc = mtc
    /\ clk_ticrate = rate
    /\ clk_ticdelta = rate
    /\ out_ticrate = orate
    /\ out_ticdelta = orate
    /\ mux_nclk = 0
    /\ mux_d0 = rate
    /\ out_ntic = 0
    /\ song_tempo = 0
    /\ mux_log = <<>>
    /\ mtc_run = FALSE
    /\ mux_op = "open"
    /\ mux_trace = <<[ph |-> MUX_STOP, by |-> "pre"]>>
    /\ mux_elapsed = 0
    /\ mux_fired = [at |-> -1, delta |-> 0]
    /\ mux_nstart = 0
    /\ mux_nmove = 0
    /\ mux_chg = FALSE

\* the transport after a routine returned `m`, the history aside
PutMux(m) ==
    /\ mux_phase' = m.phase
    /\ mux_reqphase' = m.reqphase
    /\ mux_manualstart' = m.manualstart
    /\ mux_ticlength' = m.ticlength
    /\ mux_curpos' = m.curpos
    /\ mux_nextpos' = m.nextpos
    /\ mux_curtic' = m.curtic
    /\ clk_ticdelta' = m.ticdelta
    /\ out_ticdelta' = m.outdelta
    /\ mux_nclk' = m.nclk
    /\ mux_d0' = m.d0
    /\ out_ntic' = m.ntic
    /\ song_tempo' = m.songtempo
    /\ mux_log' = m.log
    /\ mux_trace' = m.trace
    /\ mux_nstart' = m.nstart
    /\ mux_nmove' = m.nmove
    /\ panicked' = m.panic
    /\ UNCHANGED <<mididev_clksrc, mididev_mtcsrc, clk_ticrate, out_ticrate>>

\* the same, nothing else changing
SetMux(m) ==
    /\ PutMux(m)
    /\ UNCHANGED <<slvars, timovars, trkvars, plvars, dupvars, revvars, waitvars>>

\* the transport is started and the internal timer drives it
Timed ==
    /\ ~mididev_clksrc /\ ~mididev_mtcsrc
    /\ mux_phase \in {MUX_START, MUX_FIRST, MUX_NEXT}

\* history of the first tick: a routine given `delta` returned `m`
Fired(m, delta) ==
    mux_fired' = IF m.nstart > mux_nstart /\ mux_fired.at < 0
                 THEN [at |-> mux_elapsed + delta, delta |-> delta]
                 ELSE mux_fired

StartReq(manualstart) ==
    /\ ~panicked
    /\ LET m == mux_startreq(Mux, manualstart)
       IN /\ SetMux(m)
          /\ mux_elapsed' = IF m.panic THEN mux_elapsed ELSE 0
          /\ mux_fired' = IF m.panic THEN mux_fired ELSE [at |-> -1, delta |-> 0]
          /\ mux_chg' = IF m.panic THEN mux_chg ELSE FALSE
    /\ mux_op' = "startreq"
    /\ UNCHANGED mtc_run

StopReq ==
    /\ ~panicked
    /\ SetMux(mux_stopreq(Mux))
    /\ mux_op' = "stopreq"
    /\ UNCHANGED <<mux_elapsed, mux_fired, mux_chg, mtc_run>>

\* the countdown imtc.timo of the MTC source under mux_timercb: when it
\* expires mtc_timo() resets the MTC parser to its stopped state
mtc_timo(run, expired) == run /\ ~expired

\* the timer: mux_timercb(delta); `expired` says whether the countdown of the
\* MTC parser, when it runs, ends within delta
Timer(delta, expired) ==
    /\ ~panicked
    /\ Timed => mux_elapsed + delta <= MaxElapsed
    /\ expired => (mididev_mtcsrc /\ mtc_run)
    /\ LET m == mux_timercb(Mux, delta)
       IN SetMux(m) /\ Fired(m, delta)
    /\ mux_op' = "timercb"
    /\ mux_elapsed' = IF Timed THEN mux_elapsed + delta ELSE mux_elapsed
    /\ mtc_run' = mtc_timo(mtc_run, expired)
    /\ UNCHANGED mux_chg

\* a MIDI clock byte from the clock source: mux_ticcb()
DevTic ==
    /\ ~panicked
    /\ mididev_clksrc
    /\ mux_curtic < MaxTic
    /\ LET m == mux_ticcb(Mux)
       IN SetMux(m) /\ Fired(m, 0)
    /\ mux_op' = "ticcb"
    /\ UNCHANGED <<mux_elapsed, mux_chg, mtc_run>>

\* the first tick given by hand after a manual start: mux_ticcb()
ManualTic ==
    /\ ~panicked
    /\ ~mididev_clksrc
    /\ mux_manualstart # 0
    /\ mux_phase = MUX_START
    /\ LET m == mux_ticcb(Mux)
       IN SetMux(m) /\ Fired(m, 0)
    /\ mux_op' = "manualtic"
    /\ UNCHANGED <<mux_elapsed, mux_chg, mtc_run>>

\* a MIDI start byte from the clock source: mux_startcb()
DevStart ==
    /\ ~panicked
    /\ mididev_clksrc
    /\ SetMux(mux_startcb(Mux))
    /\ mux_op' = "startcb"
    /\ UNCHANGED <<mux_elapsed, mux_fired, mux_chg, mtc_run>>

\* a MIDI stop byte from the clock source: mux_stopcb()
DevStop ==
    /\ ~panicked
    /\ mididev_clksrc
    /\ SetMux(mux_stopcb(Mux))
    /\ mux_op' = "stopcb"
    /\ UNCHANGED <<mux_elapsed, mux_fired, mux_chg, mtc_run>>

\* a full frame from the MTC source: mux_mtcstart(mtcpos)
MtcStart(off) ==
    /\ ~panicked
    /\ mididev_mtcsrc
    /\ SetMux(mux_mtcstart(Mux, off))
    /\ mux_op' = "mtcstart"
    /\ mtc_run' = TRUE
    /\ UNCHANGED <<mux_elapsed, mux_fired, mux_chg>>

\* quarter frames from the MTC source: mux_mtctick(delta)
MtcTick(delta) ==
    /\ ~panicked
    /\ mididev_mtcsrc
    /\ mtc_run
    /\ mux_curtic < MaxTic
    /\ LET m == mux_mtctick(Mux, delta)
       IN SetMux(m) /\ Fired(m, 0)
    /\ mux_op' = "mtctick"
    /\ UNCHANGED <<mux_elapsed, mux_chg, mtc_run>>

\* the MTC source stopped: mux_mtcstop()
MtcStop ==
    /\ ~panicked
    /\ mididev_mtcsrc
    /\ mtc_run
    /\ SetMux(mux_mtcstop(Mux))
    /\ mux_op' = "mtcstop"
    /\ mtc_run' = FALSE
    /\ UNCHANGED <<mux_elapsed, mux_fired, mux_chg>>

ChgTempo(ticlength) ==
    /\ ~panicked
    /\ ticlength # mux_ticlength
    /\ SetMux(mux_chgtempo(Mux, ticlength))
    /\ mux_op' = "chgtempo"
    /\ mux_chg' = TRUE
    /\ UNCHANGED <<mux_elapsed, mux_fired, mtc_run>>

\* the song reaches a tempo change: its next callback calls
\* mux_chgtempo(ticlength)
SongTempo(ticlength) ==
    /\ ~panicked
    /\ song_tempo = 0
    /\ SetMux([Mux EXCEPT !.songtempo = ticlength])
    /\ mux_op' = "songtempo"
    /\ UNCHANGED <<mux_elapsed, mux_fired, mux_chg, mtc_run>>

NextMux ==
    \/ \E manualstart \in {0, 1} : StartReq(manualstart)
    \/ StopReq
    \/ \E delta \in Deltas, expired \in BOOLEAN : Timer(delta, expired)
    \/ DevTic
    \/ ManualTic
    \/ DevStart
    \/ DevStop
    \/ \E off \in Offsets : MtcStart(off)
    \/ \E delta \in Deltas : MtcTick(delta)
    \/ MtcStop
    \/ \E ticlength \in Tempos : ChgTempo(ticlength)

(***************************************************************************)
(* Timeouts: timo_add(), timo_del() and timo_update()                      *)
(***************************************************************************)

\* the width in bits of unsigned and int.  The program's are 32 bits wide;
\* the word is kept narrow here so that every value of it is explored, the
\* arithmetic being the same modulo 2^TimoBits
TimoBits == 4
WORD == 2 ^ TimoBits
HALF == WORD \div 2

\* the number of timeout operations followed
MaxTimoOps == 5

\* the timeout structures of the program
Timos == {"T1", "T2", "T3"}
\* the delays given to timo_add() and the times given to timo_update()
AddDeltas == {1, 3, HALF - 1}
UpdDeltas == {2, 4, HALF - 1, HALF + 2}
\* the deltas the callbacks give to timo_add, 0 for a callback that does not
\* call it
RearmDeltas == {0, 1, HALF - 1}
\* the number of timeout operations followed when callbacks call timo_add
MaxRearmOps == 4
\* the values of timo_abstime the queue starts empty with
TimoStarts == {0, WORD - 2}

\* unsigned arithmetic, and the conversion of an unsigned to int
u32(x) == x % WORD
int32(u) == IF u >= HALF THEN u - WORD ELSE u

Timo ==
    [queue |-> timo_queue, val |-> timo_val, set |-> timo_set,
     abstime |-> timo_abstime, fired |-> timo_fired, cb |-> timo_cb, seen |-> <<>>]

\* the position timo_add() stops its scan at: that of the first
\* timeout of the queue, from the i-th on, that expires after val (the
\* comparison ignores instead that val wrapped around)
Mut_add_scan(q, val, i) ==
    IF \E j \in i..Len(q.queue) : q.val[q.queue[j]] > val
    THEN CHOOSE j \in i..Len(q.queue) :
            /\ q.val[q.queue[j]] > val
            /\ \A k \in i..(j - 1) : ~(q.val[q.queue[k]] > val)
    ELSE Len(q.queue) + 1

RECURSIVE Mut_add_scan_lifo(_, _, _)
Mut_add_scan_lifo(q, val, i) ==
    IF i > Len(q.queue) THEN i
    ELSE IF int32(u32(q.val[q.queue[i]] - val)) >= 0 THEN i
    ELSE Mut_add_scan_lifo(q, val, i + 1)

RECURSIVE add_scan(_, _, _)
add_scan(q, val, i) ==
    IF i > Len(q.queue) THEN i
    ELSE IF int32(u32(q.val[q.queue[i]] - val)) > 0 THEN i
    ELSE add_scan(q, val, i + 1)

\* timo_add(o, delta); o must not be scheduled already
timo_add(q, o, delta) ==
    LET val == u32(q.abstime + delta)
        i == add_scan(q, val, 1)
    IN [q EXCEPT !.set[o] = TRUE, !.val[o] = val,
                 !.queue = SubSeq(@, 1, i - 1) \o <<o>> \o SubSeq(@, i, Len(@))]

\* timo_del(o), that forgets to clear o->set
Mut_timo_del(q, o) ==
    [q EXCEPT !.queue = SelectSeq(@, LAMBDA t : t # o)]

\* timo_del(o): a timeout that is not found is left as it is
timo_del(q, o) ==
    IF \E i \in 1..Len(q.queue) : q.queue[i] = o
    THEN [q EXCEPT !.queue = SelectSeq(@, LAMBDA t : t # o), !.set[o] = FALSE]
    ELSE q

\* the test the loop of timo_update() leaves on, comparing the two
\* unsigned values instead of taking the sign of their difference
Mut_timo_pending(q) == q.val[Head(q.queue)] > q.abstime

\* the test the loop of timo_update() leaves on: the head is not expired
timo_pending(q) == int32(u32(q.val[Head(q.queue)] - q.abstime)) > 0

\* the loop of timo_update(): the expired timeouts are unlinked and their
\* callbacks called, head first
\* to->cb(to->arg): a callback that schedules its timeout again, or not
timo_callback(q, to) ==
    LET q1 == [q EXCEPT !.seen = Append(@, [t |-> to, set |-> q.set[to],
                                            linked |-> \E i \in 1..Len(q.queue) : q.queue[i] = to])]
    IN IF q.cb[to] > 0 THEN timo_add(q1, to, q.cb[to]) ELSE q1

RECURSIVE Mut_update_loop(_)
Mut_update_loop(q) ==
    IF q.queue = <<>> THEN q
    ELSE IF timo_pending(q) THEN q
    ELSE LET to == Head(q.queue)
             q1 == timo_callback([q EXCEPT !.queue = Tail(@), !.fired = Append(@, to)], to)
         IN Mut_update_loop([q1 EXCEPT !.set[to] = FALSE])

RECURSIVE update_loop(_)
update_loop(q) ==
    IF q.queue = <<>> THEN q
    ELSE IF timo_pending(q) THEN q
    ELSE LET to == Head(q.queue)
         IN update_loop(timo_callback([q EXCEPT !.queue = Tail(@), !.set[to] = FALSE,
                                                !.fired = Append(@, to)], to))

timo_update(q, delta) ==
    update_loop([q EXCEPT !.abstime = u32(@ + delta)])

TimoOp(op, t, delta) == [op |-> op, t |-> t, delta |-> delta]
\* history of the order of the timo_add calls: a timeout that left the queue
\* is forgotten, the timeout of a timo_add comes last, those of the callbacks
\* of a timo_update in their order
Added(q, o) ==
    LET in(s, t) == \E i \in 1..Len(s) : s[i] = t
        kept == SelectSeq(timo_added,
                          LAMBDA t : in(q.queue, t) /\ ~in(q.fired, t) /\ t # o.t)
        again == SelectSeq(q.fired, LAMBDA t : in(q.queue, t))
    IN IF o.op = "add" THEN Append(kept, o.t) ELSE kept \o again

SetTimo(q, o) ==
    /\ timo_queue' = q.queue
    /\ timo_val' = q.val
    /\ timo_set' = q.set
    /\ timo_abstime' = q.abstime
    /\ timo_fired' = q.fired
    /\ timo_op' = o
    /\ timo_nops < MaxTimoOps
    /\ timo_nops' = timo_nops + 1
    /\ timo_added' = Added(q, o)
    /\ timo_seen' = q.seen
    /\ UNCHANGED <<timo_cb, slvars, muxvars, panicked, trkvars, plvars, dupvars, revvars, waitvars>>

\* timo_init(), with the time already at abstime
TimoInitCb(abstime, cb) ==
    /\ timo_queue = <<>>
    /\ timo_val = [t \in Timos |-> 0]
    /\ timo_set = [t \in Timos |-> FALSE]
    /\ timo_abstime = abstime
    /\ timo_fired = <<>>
    /\ timo_op = TimoOp("init", "none", 0)
    /\ timo_big = FALSE
    /\ timo_nops = 0
    /\ timo_added = <<>>
    /\ timo_cb = cb
    /\ timo_seen = <<>>

\* the same, no callback scheduling its timeout again
TimoInit(abstime) == TimoInitCb(abstime, [t \in Timos |-> 0])

TimoAdd(o, delta) ==
    /\ ~timo_set[o]
    /\ SetTimo(timo_add([Timo EXCEPT !.fired = <<>>], o, delta),
               TimoOp("add", o, delta))
    /\ UNCHANGED timo_big

TimoDel(o) ==
    /\ SetTimo(timo_del([Timo EXCEPT !.fired = <<>>], o), TimoOp("del", o, 0))
    /\ UNCHANGED timo_big

TimoUpdate(delta) ==
    /\ SetTimo(timo_update([Timo EXCEPT !.fired = <<>>], delta),
               TimoOp("update", "none", delta))
    /\ timo_big' = (timo_big \/ delta >= HALF)

NextTimo ==
    \/ \E o \in Timos, delta \in AddDeltas : TimoAdd(o, delta)
    \/ \E o \in Timos : TimoDel(o)
    \/ \E delta \in UpdDeltas : TimoUpdate(delta)

(***************************************************************************)
(* Tracks: lists of seqev structures ended by the inline eot (track.c)     *)
(***************************************************************************)

\* slots of the seqev pool, and the number of track operations followed
MaxSeqevs == 3
MaxTrackOps == 6

\* the tracks; a seqev is named by its slot, the eot of track o by -o
Tracks == {1, 2}
NULL == 0
eot(o) == 0 - o
Seqevs == 1..MaxSeqevs
Nodes == Seqevs \cup {eot(o) : o \in Tracks}
\* the values of a struct seqev **: &o->first and &se->next
RefFirst(o) == [kind |-> "first", at |-> o]
RefNext(se) == [kind |-> "next", at |-> se]
\* the ticks given to track_shift()
Shifts == {1, 2, WORD - 1}
\* the ticks of blank space written before a position
Blanks == {2}

\* pool_new() that returns the first free entry and leaves it on the free list
Mut_pool_new(pool) ==
    IF pool = <<>> THEN [panic |-> TRUE, e |-> NULL, pool |-> pool]
    ELSE [panic |-> FALSE, e |-> Head(pool), pool |-> pool]

\* pool_new() that returns NULL when the free list is empty
Mut_pool_new_null(pool) ==
    IF pool = <<>> THEN [panic |-> FALSE, e |-> NULL, pool |-> pool]
    ELSE [panic |-> FALSE, e |-> Head(pool), pool |-> Tail(pool)]

\* pool_new(): the entry unlinked from the free list, or a panic
pool_new(pool) ==
    IF pool = <<>> THEN [panic |-> TRUE, e |-> NULL, pool |-> pool]
    ELSE [panic |-> FALSE, e |-> Head(pool), pool |-> Tail(pool)]

Trk ==
    [first |-> trk_first, next |-> se_next, prev |-> se_prev,
     delta |-> se_delta, cmd |-> se_cmd]

\* *ref = se
store(h, ref, se) ==
    IF ref.kind = "first" THEN [h EXCEPT !.first[ref.at] = se]
    ELSE [h EXCEPT !.next[ref.at] = se]

track_init(h, o) ==
    [h EXCEPT !.cmd[eot(o)] = "NULL", !.delta[eot(o)] = 0, !.next[eot(o)] = NULL,
              !.prev[eot(o)] = RefFirst(o), !.first[o] = eot(o)]

track_isempty(h, o) == h.cmd[h.first[o]] = "NULL" /\ h.delta[h.first[o]] = 0

track_chomp(h, o) == [h EXCEPT !.delta[eot(o)] = 0]

track_shift(h, o, ntics) == [h EXCEPT !.delta[h.first[o]] = u32(@ + ntics)]

\* track_swap() without the last two stores, that make the list of each
\* track end on its own eot
Mut_track_swap(h, t1, t2) ==
    LET h1 == [h EXCEPT !.first[t1] = h.first[t2], !.first[t2] = h.first[t1]]
        h2 == [h1 EXCEPT !.prev[h1.first[t1]] = RefFirst(t1)]
        h3 == [h2 EXCEPT !.prev[h2.first[t2]] = RefFirst(t2)]
    IN [h3 EXCEPT !.next[eot(t1)] = h3.next[eot(t2)], !.next[eot(t2)] = h3.next[eot(t1)],
                  !.prev[eot(t1)] = h3.prev[eot(t2)], !.prev[eot(t2)] = h3.prev[eot(t1)],
                  !.delta[eot(t1)] = h3.delta[eot(t2)], !.delta[eot(t2)] = h3.delta[eot(t1)],
                  !.cmd[eot(t1)] = h3.cmd[eot(t2)], !.cmd[eot(t2)] = h3.cmd[eot(t1)]]

\* track_swap() without the two stores of &t1->first and &t2->first in the
\* prev of the first seqevs
Mut_track_swap_prev(h, t1, t2) ==
    LET h3 == [h EXCEPT !.first[t1] = h.first[t2], !.first[t2] = h.first[t1]]
        h4 == [h3 EXCEPT
                 !.next[eot(t1)] = h3.next[eot(t2)], !.next[eot(t2)] = h3.next[eot(t1)],
                 !.prev[eot(t1)] = h3.prev[eot(t2)], !.prev[eot(t2)] = h3.prev[eot(t1)],
                 !.delta[eot(t1)] = h3.delta[eot(t2)], !.delta[eot(t2)] = h3.delta[eot(t1)],
                 !.cmd[eot(t1)] = h3.cmd[eot(t2)], !.cmd[eot(t2)] = h3.cmd[eot(t1)]]
        h5 == store(h4, h4.prev[eot(t1)], eot(t1))
    IN store(h5, h5.prev[eot(t2)], eot(t2))

track_swap(h, t1, t2) ==
    LET \* swap list of events
        h1 == [h EXCEPT !.first[t1] = h.first[t2], !.first[t2] = h.first[t1]]
        h2 == [h1 EXCEPT !.prev[h1.first[t1]] = RefFirst(t1)]
        h3 == [h2 EXCEPT !.prev[h2.first[t2]] = RefFirst(t2)]
        \* swap eot events
        h4 == [h3 EXCEPT
                 !.next[eot(t1)] = h3.next[eot(t2)], !.next[eot(t2)] = h3.next[eot(t1)],
                 !.prev[eot(t1)] = h3.prev[eot(t2)], !.prev[eot(t2)] = h3.prev[eot(t1)],
                 !.delta[eot(t1)] = h3.delta[eot(t2)], !.delta[eot(t2)] = h3.delta[eot(t1)],
                 !.cmd[eot(t1)] = h3.cmd[eot(t2)], !.cmd[eot(t2)] = h3.cmd[eot(t1)]]
        \* fix references to eot events
        h5 == store(h4, h4.prev[eot(t1)], eot(t1))
    IN store(h5, h5.prev[eot(t2)], eot(t2))

\* seqev_ins() that leaves pos its delta
Mut_seqev_ins(h, pos, se) ==
    LET h1 == [h EXCEPT !.delta[se] = h.delta[pos]]
        h2 == [h1 EXCEPT !.next[se] = pos, !.prev[se] = h1.prev[pos]]
        h3 == store(h2, h2.prev[se], se)
    IN [h3 EXCEPT !.prev[pos] = RefNext(se)]

seqev_ins(h, pos, se) ==
    LET h1 == [h EXCEPT !.delta[se] = h.delta[pos], !.delta[pos] = 0]
        h2 == [h1 EXCEPT !.next[se] = pos, !.prev[se] = h1.prev[pos]]
        h3 == store(h2, h2.prev[se], se)
    IN [h3 EXCEPT !.prev[pos] = RefNext(se)]

\* seqev_rm() that drops the delta of pos
Mut_seqev_rm(h, pos) ==
    LET h1 == [h EXCEPT !.delta[pos] = 0]
        h2 == store(h1, h1.prev[pos], h1.next[pos])
    IN [h2 EXCEPT !.prev[h2.next[pos]] = h2.prev[pos]]

\* seqev_rm(pos), pos not being an eot
seqev_rm(h, pos) ==
    LET h1 == [h EXCEPT !.delta[h.next[pos]] = u32(@ + h.delta[pos])]
        h2 == [h1 EXCEPT !.delta[pos] = 0]
        h3 == store(h2, h2.prev[pos], h2.next[pos])
    IN [h3 EXCEPT !.prev[h3.next[pos]] = h3.prev[pos]]

RECURSIVE numev_loop(_, _)
numev_loop(h, i) == IF i = NULL THEN 0 ELSE 1 + numev_loop(h, h.next[i])
track_numev(h, o) == numev_loop(h, h.first[o])

RECURSIVE numtic_loop(_, _)
numtic_loop(h, i) == IF i = NULL THEN 0 ELSE u32(h.delta[i] + numtic_loop(h, h.next[i]))
track_numtic(h, o) == numtic_loop(h, h.first[o])

\* the loop of track_clear(): the seqevs given to seqev_del(), in order
RECURSIVE clear_loop(_, _, _)
clear_loop(h, o, i) ==
    IF i = eot(o) THEN <<>> ELSE <<i>> \o clear_loop(h, o, h.next[i])

\* track_clear(o): the track, and the free list of the seqev pool
track_clear(h, pool, o) ==
    [trk |-> [h EXCEPT !.delta[eot(o)] = 0, !.prev[eot(o)] = RefFirst(o),
                       !.first[o] = eot(o)],
     pool |-> pool_del_all(pool, clear_loop(h, o, h.first[o]))]

TrkOp(op, o, pos, n) == [op |-> op, o |-> o, pos |-> pos, n |-> n]

\* the seqevs of track o, following next from o->first, at most as many as
\* there are structures
RECURSIVE walk(_, _, _)
walk(h, i, fuel) ==
    IF i = NULL \/ fuel = 0 THEN <<>> ELSE <<i>> \o walk(h, h.next[i], fuel - 1)
Walk(h, o) == walk(h, h.first[o], MaxSeqevs + 3)

SetTrk(h, pool, panic, o) ==
    /\ trk_first' = h.first
    /\ se_next' = h.next
    /\ se_prev' = h.prev
    /\ se_delta' = h.delta
    /\ se_cmd' = h.cmd
    /\ seqev_pool' = pool
    /\ panicked' = panic
    /\ trk_op' = o
    /\ trk_nops' = trk_nops + 1
    /\ UNCHANGED <<slvars, muxvars, timovars, plvars, dupvars, revvars, waitvars>>

\* seqev_pool_init() and track_init() of each track; the seqevs of the pool
\* have not been written yet
RECURSIVE init_tracks(_, _)
init_tracks(h, os) ==
    IF os = {} THEN h
    ELSE LET o == CHOOSE o \in os : TRUE
         IN init_tracks(track_init(h, o), os \ {o})

TrkInit ==
    LET h == init_tracks([first |-> [o \in Tracks |-> NULL],
                          next |-> [i \in Nodes |-> NULL],
                          prev |-> [i \in Nodes |-> RefNext(i)],
                          delta |-> [i \in Nodes |-> 0],
                          cmd |-> [i \in Nodes |-> "NULL"]], Tracks)
    IN /\ trk_first = h.first
       /\ se_next = h.next
       /\ se_prev = h.prev
       /\ se_delta = h.delta
       /\ se_cmd = h.cmd
       /\ seqev_pool = pool_init(MaxSeqevs)
       /\ trk_op = TrkOp("init", 0, NULL, 0)
       /\ trk_nops = 0

\* seqev_new(), the event is stored in the seqev, seqev_ins(pos, se); pos is a
\* position of track o
TrkIns(o, pos) ==
    /\ ~panicked
    /\ trk_nops < MaxTrackOps
    /\ \E k \in 1..Len(Walk(Trk, o)) : Walk(Trk, o)[k] = pos
    /\ LET r == pool_new(seqev_pool)
       IN IF r.panic
          THEN SetTrk(Trk, r.pool, TRUE, TrkOp("ins", o, pos, 0))
          ELSE SetTrk(seqev_ins([Trk EXCEPT !.cmd[r.e] = "NON"], pos, r.e),
                      r.pool, FALSE, TrkOp("ins", o, pos, r.e))

\* seqev_rm(pos), seqev_del(pos); pos is an event of track o
TrkRm(o, pos) ==
    /\ ~panicked
    /\ trk_nops < MaxTrackOps
    /\ pos # eot(o)
    /\ \E k \in 1..Len(Walk(Trk, o)) : Walk(Trk, o)[k] = pos
    /\ SetTrk(seqev_rm(Trk, pos), pool_del(seqev_pool, pos), FALSE,
              TrkOp("rm", o, pos, 0))

TrkShift(o, ntics) ==
    /\ ~panicked
    /\ trk_nops < MaxTrackOps
    /\ SetTrk(track_shift(Trk, o, ntics), seqev_pool, FALSE,
              TrkOp("shift", o, NULL, ntics))

TrkChomp(o) ==
    /\ ~panicked
    /\ trk_nops < MaxTrackOps
    /\ SetTrk(track_chomp(Trk, o), seqev_pool, FALSE, TrkOp("chomp", o, NULL, 0))

TrkClear(o) ==
    /\ ~panicked
    /\ trk_nops < MaxTrackOps
    /\ LET r == track_clear(Trk, seqev_pool, o)
       IN SetTrk(r.trk, r.pool, FALSE, TrkOp("clear", o, NULL, 0))

\* blank space is written before a position of track o, as the routines that
\* record into a track do: the delta of pos grows by ntics
TrkBlank(o, pos, ntics) ==
    /\ ~panicked
    /\ trk_nops < MaxTrackOps
    /\ \E k \in 1..Len(Walk(Trk, o)) : Walk(Trk, o)[k] = pos
    /\ SetTrk([Trk EXCEPT !.delta[pos] = u32(@ + ntics)], seqev_pool, FALSE,
              TrkOp("blank", o, pos, ntics))

\* track_swap(t1, t2) of two distinct tracks
TrkSwap(t1, t2) ==
    /\ ~panicked
    /\ trk_nops < MaxTrackOps
    /\ t1 # t2
    /\ SetTrk(track_swap(Trk, t1, t2), seqev_pool, FALSE, TrkOp("swap", t1, NULL, t2))

NextTrack ==
    \/ \E o \in Tracks, pos \in Nodes : TrkIns(o, pos)
    \/ \E o \in Tracks, pos \in Seqevs : TrkRm(o, pos)
    \/ \E o \in Tracks, ntics \in Shifts : TrkShift(o, ntics)
    \/ \E o \in Tracks : TrkChomp(o)
    \/ \E o \in Tracks : TrkClear(o)
    \/ \E t1, t2 \in Tracks : TrkSwap(t1, t2)
    \/ \E o \in Tracks, pos \in Nodes, ntics \in Blanks : TrkBlank(o, pos, ntics)

(***************************************************************************)
(* A pool under pool_new() and pool_del()                                  *)
(***************************************************************************)

\* entries of the pool, and the number of pool operations followed
MaxPool == 4
MaxPoolOps == 8

PoolOp(op, e) == [op |-> op, e |-> e]

\* pool_init(o, name, itemsize, MaxPool); nothing is allocated
PoolInit ==
    /\ pl_first = pool_init(MaxPool)
    /\ pl_live = {}
    /\ pl_log = <<>>
    /\ pl_itemnum = pool_itemnum(MaxPool)

\* p = pool_new(o)
PoolNew ==
    /\ ~panicked
    /\ Len(pl_log) < MaxPoolOps
    /\ LET r == pool_new(pl_first)
       IN /\ pl_first' = r.pool
          /\ panicked' = r.panic
          /\ pl_live' = IF r.panic THEN pl_live ELSE pl_live \cup {r.e}
          /\ pl_log' = Append(pl_log, PoolOp("new", r.e))
    /\ UNCHANGED <<pl_itemnum, slvars, muxvars, timovars, trkvars, dupvars, revvars, waitvars>>

\* pool_del(o, p) of an entry p that is allocated
PoolDel(p) ==
    /\ ~panicked
    /\ Len(pl_log) < MaxPoolOps
    /\ p \in pl_live
    /\ pl_first' = pool_del(pl_first, p)
    /\ pl_live' = pl_live \ {p}
    /\ pl_log' = Append(pl_log, PoolOp("del", p))
    /\ UNCHANGED <<pl_itemnum, slvars, muxvars, timovars, trkvars, panicked, dupvars, revvars,
                   waitvars>>

NextPool ==
    \/ PoolNew
    \/ \E p \in 1..MaxPool : PoolDel(p)

(***************************************************************************)
(* state_cancel() and state_restore()                                      *)
(***************************************************************************)

\* what the two routines return: the number of events and the event stored
\* in rev (NoEv: rev was not written)
Rev(n, ev) == [n |-> n, ev |-> ev, panic |-> FALSE]
RevPanic == [n |-> 0, ev |-> NoEv, panic |-> TRUE]

\* state_cancel() that tests for a terminated frame (phase LAST alone)
Mut_state_cancel(st) ==
    IF st.phase = {EV_PHASE_LAST} THEN Rev(0, NoEv)
    ELSE CASE st.ev.cmd \in {"NON", "KAT"} ->
                Rev(1, [cmd |-> "NOFF", dev |-> st.ev.dev, ch |-> st.ev.ch,
                        v0 |-> st.ev.v0, v1 |-> EV_NOFF_DEFAULTVEL])
           [] st.ev.cmd = "CAT" ->
                Rev(1, [cmd |-> "CAT", dev |-> st.ev.dev, ch |-> st.ev.ch,
                        v0 |-> EV_CAT_DEFAULT, v1 |-> 0])
           [] st.ev.cmd = "XCTL" ->
                Rev(1, [cmd |-> "XCTL", dev |-> st.ev.dev, ch |-> st.ev.ch,
                        v0 |-> st.ev.v0, v1 |-> EV_CTL_DEFVAL(st.ev)])
           [] st.ev.cmd = "BEND" ->
                Rev(1, [cmd |-> "BEND", dev |-> st.ev.dev, ch |-> st.ev.ch,
                        v0 |-> EV_BEND_DEFAULT, v1 |-> 0])
           [] OTHER -> RevPanic

\* state_cancel(st, rev); the fields of rev the code does not write are 0
state_cancel(st) ==
    IF EV_PHASE_LAST \in st.phase THEN Rev(0, NoEv)
    ELSE CASE st.ev.cmd \in {"NON", "KAT"} ->
                Rev(1, [cmd |-> "NOFF", dev |-> st.ev.dev, ch |-> st.ev.ch,
                        v0 |-> st.ev.v0, v1 |-> EV_NOFF_DEFAULTVEL])
           [] st.ev.cmd = "CAT" ->
                Rev(1, [cmd |-> "CAT", dev |-> st.ev.dev, ch |-> st.ev.ch,
                        v0 |-> EV_CAT_DEFAULT, v1 |-> 0])
           [] st.ev.cmd = "XCTL" ->
                Rev(1, [cmd |-> "XCTL", dev |-> st.ev.dev, ch |-> st.ev.ch,
                        v0 |-> st.ev.v0, v1 |-> EV_CTL_DEFVAL(st.ev)])
           [] st.ev.cmd = "BEND" ->
                Rev(1, [cmd |-> "BEND", dev |-> st.ev.dev, ch |-> st.ev.ch,
                        v0 |-> EV_BEND_DEFAULT, v1 |-> 0])
           [] OTHER -> RevPanic

\* state_restore() that restores the last event of terminated frames too
Mut_state_restore(st) ==
    IF STATE_BOGUS \in st.flags THEN Rev(0, NoEv)
    ELSE IF EV_ISNOTE(st.ev) THEN RevPanic
    ELSE Rev(1, st.ev)

state_restore(st) ==
    IF STATE_BOGUS \in st.flags THEN Rev(0, NoEv)
    ELSE IF EV_ISNOTE(st.ev) THEN RevPanic
    ELSE IF EV_PHASE_LAST \in st.phase /\ EV_PHASE_FIRST \notin st.phase
         THEN Rev(0, NoEv)
    ELSE Rev(1, st.ev)

\* events of every kind of frame, on two devices and channels
RevEvents ==
    {[ev EXCEPT !.dev = dc[1], !.ch = dc[2]] :
        ev \in {NoteOn60, NoteOff60, Ev("KAT", 60, 50), Ev("PC", 5, 0),
                Ev("CAT", 40, 0), Ev("CAT", EV_CAT_DEFAULT, 0),
                Ev("XCTL", 7, 9000), Ev("XCTL", 7, 12700), Ev("XCTL", 1, 0),
                Ev("BEND", 9000, 0), Ev("BEND", EV_BEND_DEFAULT, 0)},
        dc \in {<<0, 0>>, <<1, 9>>}}

\* the state statelist_update(ev) writes, the scan having ended on a state
\* with these flags (a new one, or an open one with STATE_NEW cleared)
StateAfter(ev, flags) ==
    LET sw == update_switch(flags, ev_phase(ev))
    IN state_copyev(NewState(1, IF sw.nest THEN sw.nflags ELSE sw.flags), ev, sw.phase)

\* the states the two routines are given: written by statelist_update, and
\* possibly kept by statelist_outdate since
RevStates ==
    LET sts == {StateAfter(ev, flags) :
                    ev \in RevEvents,
                    flags \in {{STATE_NEW}} \cup SUBSET {STATE_CHANGED, STATE_NESTED}}
    IN sts \cup {outdate_keep(st) : st \in {s \in sts : ~outdate_purge(s)}}

RevInit(st) ==
    /\ rev_st = st
    /\ rev_out = Rev(0, NoEv)
    /\ rev_op = "init"

\* n = state_cancel(st, &rev)
Cancel ==
    /\ ~panicked
    /\ LET r == state_cancel(rev_st)
       IN /\ rev_out' = r
          /\ panicked' = r.panic
    /\ rev_op' = "cancel"
    /\ UNCHANGED <<rev_st, slvars, muxvars, timovars, trkvars, plvars, dupvars, waitvars>>

\* n = state_restore(st, &rev)
Restore ==
    /\ ~panicked
    /\ LET r == state_restore(rev_st)
       IN /\ rev_out' = r
          /\ panicked' = r.panic
    /\ rev_op' = "restore"
    /\ UNCHANGED <<rev_st, slvars, muxvars, timovars, trkvars, plvars, dupvars, waitvars>>

NextRev == Cancel \/ Restore

\* ---------------------------------------------------------------------
\* The event loop: mux_mdep_wait (mdep.c) reads the devices and the clock
\* and calls mux_timercb (mux.c), which runs the sensing timeouts

MaxWaits == 3           \* calls of mux_mdep_wait
MIDIDEV_OSENSTO == 250 * 24 * 1000
MIDIDEV_ISENSTO == 350 * 24 * 1000
SEC == 1000000000       \* nanoseconds in tv_sec

\* mididev_list: a device of mode IN and a device of mode OUT
WaitDevs == <<"in", "out">>
WaitDevSet == {"in", "out"}
mode_in(d) == d = "in"

\* readings of CLOCK_MONOTONIC (struct timespec); the first is the reading
\* of mux_mdep_open
Nsecs == {0, 41, 42, 100000000, 350000000, 999999999}
Stamps == {[sec |-> s, nsec |-> n] : s \in {0, 1}, n \in Nsecs}
              \cup {[sec |-> 2, nsec |-> n] : n \in {0, 41}}
Stamp0 == [sec |-> 0, nsec |-> 350000000]

\* what poll() and read() report for the input device: nothing, bytes
\* without active sensing, bytes with an active sensing message, or a read
\* that sets dev->eof; and whether POLLHUP is reported
Revents == {[in |-> i, hup |-> h] : i \in {"none", "data", "ack", "eof"}, h \in BOOLEAN}

\* the state mux_mdep_wait works on; log and delta are the history of the call
Wt ==
    [ts_last |-> ts_last, wallclock |-> mux_wallclock, isensto |-> dev_isensto,
     osensto |-> dev_osensto, eof |-> dev_eof, log |-> <<>>, delta |-> -1,
     iat |-> sense_iat, oat |-> sense_oat, lost |-> wait_lost]

WLog(w, who, what) == [w EXCEPT !.log = Append(@, [dev |-> who, msg |-> what])]

Mut_ackcb(w, d) ==
    [WLog(w, d, "sensing enabled") EXCEPT !.isensto[d] = MIDIDEV_OSENSTO,
                                          !.iat[d] = w.wallclock]
\* mux_ackcb(unit)
mux_ackcb(w, d) ==
    IF w.isensto[d] = 0
    THEN [WLog(w, d, "sensing enabled") EXCEPT !.isensto[d] = MIDIDEV_ISENSTO,
                                               !.iat[d] = w.wallclock]
    ELSE w

\* mux_errorcb(unit): norm_shut() and mux_flush()
mux_errorcb(w, d) == WLog(w, d, "errorcb")

\* the body of the device loop of mux_mdep_wait for device `d`: dev->pfd is
\* NULL for a device that is not of mode IN or that has eof set
wait_read(w, d, rev) ==
    IF ~mode_in(d) \/ w.eof[d] THEN w
    ELSE IF rev.in = "eof" THEN mux_errorcb([w EXCEPT !.eof[d] = TRUE], d)
    ELSE LET w1 == IF rev.in = "none" THEN w
                   ELSE LET w2 == IF w.isensto[d] > 0
                                  THEN [w EXCEPT !.isensto[d] = MIDIDEV_ISENSTO,
                                                 !.iat[d] = w.wallclock]
                                  ELSE w
                        IN IF rev.in = "ack" THEN mux_ackcb(w2, d) ELSE w2
         IN IF rev.hup THEN mux_errorcb([w1 EXCEPT !.eof[d] = TRUE], d) ELSE w1

RECURSIVE read_loop(_, _, _)
read_loop(w, ds, rev) ==
    IF ds = <<>> THEN w ELSE read_loop(wait_read(w, Head(ds), rev), Tail(ds), rev)

Mut_sense_dev(w, d, delta) ==
    LET w1 == IF w.isensto[d] # 0
              THEN IF w.isensto[d] <= delta
                   THEN WLog([w EXCEPT !.isensto[d] = 0], d, "sensing timeout, disabled")
                   ELSE [w EXCEPT !.isensto[d] = @ - delta]
              ELSE w
    IN IF w1.osensto[d] # 0
       THEN IF w1.osensto[d] <= delta
            THEN [WLog(WLog(w1, d, "putack"), d, "flush")
                      EXCEPT !.osensto[d] = MIDIDEV_OSENSTO + w1.osensto[d],
                             !.oat[d] = w.wallclock]
            ELSE [w1 EXCEPT !.osensto[d] = @ - delta]
       ELSE w1
\* the body of the device loop of mux_timercb for device `d`; the clock
\* was advanced before
sense_dev(w, d, delta) ==
    LET w1 == IF w.isensto[d] # 0
              THEN IF w.isensto[d] <= delta
                   THEN WLog([w EXCEPT !.isensto[d] = 0], d, "sensing timeout, disabled")
                   ELSE [w EXCEPT !.isensto[d] = @ - delta]
              ELSE w
    IN IF w1.osensto[d] # 0
       THEN IF w1.osensto[d] <= delta
            THEN [WLog(WLog(w1, d, "putack"), d, "flush")
                      EXCEPT !.osensto[d] = MIDIDEV_OSENSTO, !.oat[d] = w.wallclock]
            ELSE [w1 EXCEPT !.osensto[d] = @ - delta]
       ELSE w1

RECURSIVE sense_loop(_, _, _)
sense_loop(w, ds, delta) ==
    IF ds = <<>> THEN w ELSE sense_loop(sense_dev(w, Head(ds), delta), Tail(ds), delta)

\* mux_timercb(delta): the wall clock and the sensing timeouts
timercb_sense(w, delta) ==
    sense_loop([w EXCEPT !.wallclock = @ + delta, !.delta = delta], WaitDevs, delta)

\* delta_nsec of mux_mdep_wait
delta_nsec(ts, last) == SEC * (ts.sec - last.sec) + (ts.nsec - last.nsec)
\* 24 * d / 1000 for d >= 0, computed on the quotient and the remainder of d
\* by 125 so that no intermediate value exceeds d
usec24(d) == 3 * (d \div 125) + (3 * (d % 125)) \div 125

Mut_wait_clock(w, ts) ==
    LET d == delta_nsec(ts, w.ts_last)
    IN IF d > 0
       THEN IF d < SEC THEN timercb_sense([w EXCEPT !.ts_last = ts], usec24(d))
            ELSE [WLog(w, "mux", "ignored huge clock delta") EXCEPT !.lost = @ + d]
       ELSE w
\* the clock part of mux_mdep_wait, mux_isopen being set
wait_clock(w, ts) ==
    LET d == delta_nsec(ts, w.ts_last)
    IN IF d > 0
       THEN LET w1 == [w EXCEPT !.ts_last = ts]
            IN IF d < SEC THEN timercb_sense(w1, usec24(d))
               ELSE [WLog(w1, "mux", "ignored huge clock delta") EXCEPT !.lost = @ + d]
       ELSE w

\* mux_open() and mux_mdep_open(): the sensing timeouts of the devices and
\* the first reading of the clock
WaitInit ==
    /\ ts_last = Stamp0
    /\ mux_wallclock = 0
    /\ dev_isensto = [d \in WaitDevSet |-> 0]
    /\ dev_osensto = [d \in WaitDevSet |-> MIDIDEV_OSENSTO]
    /\ dev_eof = [d \in WaitDevSet |-> FALSE]
    /\ wait_in = [ts |-> Stamp0, rev |-> [in |-> "none", hup |-> FALSE]]
    /\ wait_delta = -1
    /\ wait_log = <<>>
    /\ wait_lost = 0
    /\ wait_n = 0
    /\ sense_iat = [d \in WaitDevSet |-> 0]
    /\ sense_oat = [d \in WaitDevSet |-> 0]

\* mux_mdep_wait(): poll() reported `rev` for the input device and the clock
\* reads `ts`; mux_timercb, when called, runs the timeout queue, the sensing
\* timeouts and the transport
Wait(ts, rev) ==
    /\ ~panicked
    /\ wait_n < MaxWaits
    /\ LET w == wait_clock(read_loop(Wt, WaitDevs, rev), ts)
       IN /\ ts_last' = w.ts_last
          /\ mux_wallclock' = w.wallclock
          /\ dev_isensto' = w.isensto
          /\ dev_osensto' = w.osensto
          /\ dev_eof' = w.eof
          /\ wait_delta' = w.delta
          /\ wait_log' = w.log
          /\ wait_lost' = w.lost
          /\ sense_iat' = w.iat
          /\ sense_oat' = w.oat
          /\ IF w.delta >= 0
             THEN /\ LET q == timo_update([Timo EXCEPT !.fired = <<>>], w.delta)
                     IN /\ timo_queue' = q.queue
                        /\ timo_val' = q.val
                        /\ timo_set' = q.set
                        /\ timo_abstime' = q.abstime
                        /\ timo_fired' = q.fired
                        /\ timo_added' = Added(q, TimoOp("update", "none", w.delta))
                        /\ timo_seen' = q.seen
                        /\ UNCHANGED <<timo_op, timo_big, timo_nops, timo_cb>>
                  /\ LET m == mux_timercb(Mux, w.delta)
                     IN PutMux(m) /\ Fired(m, w.delta)
                  /\ mux_op' = "timercb"
                  /\ mux_elapsed' = IF Timed THEN mux_elapsed + w.delta ELSE mux_elapsed
                  /\ mtc_run' = mtc_timo(mtc_run, FALSE)
                  /\ UNCHANGED mux_chg
             ELSE UNCHANGED <<timovars, muxvars, panicked>>
    /\ wait_in' = [ts |-> ts, rev |-> rev]
    /\ wait_n' = wait_n + 1
    /\ UNCHANGED <<slvars, trkvars, plvars, dupvars, revvars>>

\* the event loop, the transport being started on the internal timer or not
NextWait ==
    \/ \E ts \in Stamps, rev \in Revents : Wait(ts, rev)
    \/ (mux_phase = MUX_STOP /\ wait_n < MaxWaits /\ StartReq(0))

\* the source devices, the ticrate of the clock source and that of the
\* output device
Configs ==
    {<<FALSE, FALSE, DEFAULT_TPU, 192>>, <<FALSE, TRUE, DEFAULT_TPU, 48>>}
        \cup {<<TRUE, mtc, rate, DEFAULT_TPU>> : mtc \in BOOLEAN, rate \in Rates}

\* the state list with the transport left as mux_open() leaves it
InitState == InitS /\ MuxInit(FALSE, FALSE, DEFAULT_TPU, DEFAULT_TPU) /\ TimoInit(0) /\ TrkInit /\ PoolInit /\ RevInit(NewState(0, {})) /\ WaitInit
\* the transport after mux_open(), for each configuration of the sources
InitMux == InitS /\ (\E c \in Configs : MuxInit(c[1], c[2], c[3], c[4])) /\ TimoInit(0) /\ TrkInit /\ PoolInit /\ RevInit(NewState(0, {})) /\ WaitInit
\* the timeout queue after timo_init(), the time being at one of TimoStarts
InitTimo ==
    InitS /\ MuxInit(FALSE, FALSE, DEFAULT_TPU, DEFAULT_TPU)
        /\ (\E abstime \in TimoStarts : TimoInit(abstime)) /\ TrkInit /\ PoolInit /\ RevInit(NewState(0, {})) /\ WaitInit

SpecState == InitState /\ [][NextState]_vars
SpecMux == InitMux /\ [][NextMux]_vars

\* the transport with a song whose callbacks change the tempo
TempoConfigs ==
    {<<FALSE, FALSE, DEFAULT_TPU, 192>>, <<FALSE, TRUE, DEFAULT_TPU, 48>>,
     <<TRUE, FALSE, DEFAULT_TPU, DEFAULT_TPU>>}
TempoDeltas == {1250000, 3000000}
InitTempo ==
    /\ InitS
    /\ \E c \in TempoConfigs : MuxInit(c[1], c[2], c[3], c[4])
    /\ TimoInit(0) /\ TrkInit /\ PoolInit /\ RevInit(NewState(0, {})) /\ WaitInit
NextTempo ==
    \/ \E manualstart \in {0, 1} : StartReq(manualstart)
    \/ StopReq
    \/ \E delta \in TempoDeltas : Timer(delta, FALSE)
    \/ DevTic
    \/ ManualTic
    \/ DevStart
    \/ \E off \in Offsets : MtcStart(off)
    \/ \E delta \in TempoDeltas : MtcTick(delta)
    \/ \E ticlength \in Tempos : ChgTempo(ticlength)
    \/ \E ticlength \in Tempos : SongTempo(ticlength)
SpecTempo == InitTempo /\ [][NextTempo]_vars
SpecTimo == InitTimo /\ [][NextTimo]_vars
\* the timeout queue after timo_init(), each callback scheduling its timeout
\* again or not
InitRearm ==
    InitS /\ MuxInit(FALSE, FALSE, DEFAULT_TPU, DEFAULT_TPU)
        /\ (\E abstime \in TimoStarts, cb \in [Timos -> RearmDeltas] : TimoInitCb(abstime, cb))
        /\ TrkInit /\ PoolInit /\ RevInit(NewState(0, {})) /\ WaitInit
NextRearm ==
    \/ \E o \in Timos, delta \in {1, 3} : timo_nops < MaxRearmOps /\ TimoAdd(o, delta)
    \/ \E delta \in {2, 4, HALF - 1} : timo_nops < MaxRearmOps /\ TimoUpdate(delta)
SpecRearm == InitRearm /\ [][NextRearm]_vars
\* the tracks after track_init(), the seqev pool after seqev_pool_init()
InitTrack ==
    InitS /\ MuxInit(FALSE, FALSE, DEFAULT_TPU, DEFAULT_TPU) /\ TimoInit(0) /\ TrkInit /\ PoolInit /\ RevInit(NewState(0, {})) /\ WaitInit
SpecTrack == InitTrack /\ [][NextTrack]_vars
SpecPool == InitState /\ [][NextPool]_vars

\* the state list is updated, up to HistLen times, then duplicated; the pool
\* is sized for both lists
InitDup ==
    InitPool(2 * MaxStates) /\ MuxInit(FALSE, FALSE, DEFAULT_TPU, DEFAULT_TPU)
        /\ TimoInit(0) /\ TrkInit /\ PoolInit /\ RevInit(NewState(0, {})) /\ WaitInit
NextDup ==
    \/ ~dup_done /\ Len(sl_hist) < HistLen /\ NextState
    \/ Dup
SpecDup == InitDup /\ [][NextDup]_vars

\* two state lists sharing state_pool: the list that is updated and its copy
ListEvents == {NoteOn60, NoteOff60}
NextLists ==
    \/ \E ev \in ListEvents : Update(ev)
    \/ Outdate
    \/ Empty
    \/ DupList
    \/ \E ev \in ListEvents : DupUpdate(ev)
    \/ DupOutdate
    \/ DupEmpty
\* the histories of the operations on the first list are not kept
InitLists ==
    /\ InitPoolWith(2 * MaxStates, <<Op("more", NoEv)>>,
                    [first |-> 0, last |-> 0, pat |-> "X", out |-> FALSE])
    /\ MuxInit(FALSE, FALSE, DEFAULT_TPU, DEFAULT_TPU)
    /\ TimoInit(0) /\ TrkInit /\ PoolInit /\ RevInit(NewState(0, {})) /\ WaitInit
SpecLists == InitLists /\ [][NextLists]_vars

\* a state as statelist_update and statelist_outdate leave it
InitRev ==
    InitS /\ MuxInit(FALSE, FALSE, DEFAULT_TPU, DEFAULT_TPU) /\ TimoInit(0) /\ TrkInit
        /\ PoolInit /\ (\E st \in RevStates : RevInit(st)) /\ WaitInit
SpecRev == InitRev /\ [][NextRev]_vars

\* the devices and the clock after mux_open()
InitWait ==
    InitS /\ MuxInit(FALSE, FALSE, DEFAULT_TPU, DEFAULT_TPU) /\ TimoInit(0) /\ TrkInit
        /\ PoolInit /\ RevInit(NewState(0, {})) /\ WaitInit
SpecWait == InitWait /\ [][NextWait]_vars

(***************************************************************************)
(* Properties of the transport                                             *)
(***************************************************************************)
NoSource == ~mididev_clksrc /\ ~mididev_mtcsrc

\* the phase changes of the cycle STOP -> STARTWAIT -> START -> FIRST -> NEXT
Forward ==
    {<<MUX_STOP, MUX_STARTWAIT>>, <<MUX_STARTWAIT, MUX_START>>,
     <<MUX_START, MUX_FIRST>>, <<MUX_FIRST, MUX_NEXT>>}

\* the positions of mux_trace after which the phase differs
Changes == {i \in 1..(Len(mux_trace) - 1) : mux_trace[i].ph # mux_trace[i+1].ph}

C8_StartReq ==
    [][ /\ mux_op' = "startreq" =>
            IF mux_phase = MUX_STOP
            THEN /\ ~panicked'
                 /\ mux_reqphase' = MUX_STARTWAIT
                 /\ mux_trace'[2] = [ph |-> MUX_STARTWAIT, by |-> "startreq"]
                 /\ IF mididev_clksrc \/ mididev_mtcsrc
                    THEN mux_phase' = MUX_STARTWAIT /\ Len(mux_trace') = 2
                    ELSE /\ mux_phase' = MUX_START
                         /\ Len(mux_trace') = 3
                         /\ mux_trace'[3] = [ph |-> MUX_START, by |-> "startcb"]
            ELSE panicked' /\ mux_phase' = mux_phase
        /\ (mux_phase = MUX_STARTWAIT /\ mux_phase' # MUX_STARTWAIT) =>
              \/ mux_phase' = MUX_START /\ mux_op' \in {"startcb", "mtcstart"}
              \/ mux_phase' = MUX_STOP /\ mux_op' = "stopreq"
      ]_vars

\* with no source, the start request returns in START
C8_Witness ==
    /\ NoSource
    /\ mux_op = "startreq"
    /\ mux_phase = MUX_START
    /\ mux_reqphase = MUX_STARTWAIT

\* C9 (as claimed): with no source, the first tick fires when exactly
\* MUX_START_DELAY of delta went through mux_timercb since the start request,
\* however the time is split into callbacks.
C9_FirstTickExact ==
    (NoSource /\ mux_manualstart = 0 /\ ~panicked) =>
        /\ mux_fired.at >= 0 => mux_fired.at = MUX_START_DELAY
        /\ mux_phase = MUX_START => mux_elapsed < MUX_START_DELAY

\* C9 (amended): with no source and after mux_startreq(0), the first tick
\* fires in the first mux_timercb at which the delta accumulated since the
\* start request reaches or exceeds MUX_START_DELAY: never earlier, and later
\* by less than the delta of that callback.
C9_FirstTickAtDelay ==
    (NoSource /\ mux_manualstart = 0 /\ ~panicked) =>
        /\ mux_phase = MUX_START =>
              /\ mux_fired.at < 0
              /\ mux_nstart = 0
              /\ mux_elapsed < MUX_START_DELAY
              /\ mux_curpos = mux_elapsed
        /\ mux_phase \in {MUX_FIRST, MUX_NEXT} => mux_fired.at >= 0
        /\ mux_fired.at >= 0 =>
              /\ mux_nstart = 1
              /\ mux_fired.at >= MUX_START_DELAY
              /\ mux_fired.at - mux_fired.delta < MUX_START_DELAY

\* the callbacks step over the delay: the first tick fires late
C9_Witness ==
    /\ NoSource
    /\ mux_manualstart = 0
    /\ mux_phase = MUX_FIRST
    /\ mux_fired.at > MUX_START_DELAY
    /\ mux_elapsed = mux_fired.at

\* C10: with no source and a constant tick length L, after the first tick
\* every mux_timercb adds its delta to curpos and fires one tick per crossing
\* of nextpos, carrying the remainder: E after the first tick, floor(E / L)
\* further ticks have fired, curpos is the remainder, below nextpos.
C10_TickEveryLength ==
    (NoSource /\ ~mux_chg /\ mux_phase \in {MUX_FIRST, MUX_NEXT}) =>
        LET E == mux_elapsed - mux_fired.at
            L == mux_ticlength
        IN /\ mux_nmove = E \div L
           /\ mux_curtic = E \div L
           /\ mux_curpos = E % L
           /\ mux_nextpos = L
           /\ mux_curpos < mux_nextpos
           /\ mux_phase = MUX_FIRST <=> E < L

\* one callback spans two ticks and leaves a remainder
C10_Witness ==
    /\ NoSource /\ ~mux_chg
    /\ mux_op = "timercb"
    /\ mux_phase = MUX_NEXT
    /\ mux_trace[1].ph = MUX_FIRST
    /\ mux_nmove = 2
    /\ mux_curpos = 250000

(***************************************************************************)
(* Stops, ticks and the timer with sources                                 *)
(***************************************************************************)
\* the phase before the last transport operation
PrePhase == mux_trace[1].ph

Sent(d, what) == {i \in 1..Len(mux_log) : mux_log[i] = [dev |-> d, msg |-> what]}
\* the positions of mux_log where `what` was put to any device
SentAny(what) == {i \in 1..Len(mux_log) : mux_log[i].msg = what}

\* C12: mux_stopreq leaves the transport in STOP with requested phase STOP,
\* whatever the phase was; it puts one stop byte to each sendclk device that
\* is not the clock source when the phase was START, FIRST_TIC or NEXT_TIC,
\* and no stop byte at all when it was STARTWAIT or STOP.
C12_StopReq ==
    mux_op = "stopreq" =>
        /\ mux_phase = MUX_STOP
        /\ mux_reqphase = MUX_STOP
        /\ IF PrePhase \in {MUX_START, MUX_FIRST, MUX_NEXT}
           THEN /\ Cardinality(Sent("out", "stop")) = 1
                /\ SentAny("stop") = Sent("out", "stop")
           ELSE SentAny("stop") = {}

\* a stop request while running on a clock source: the output device gets the
\* stop byte, the clock source device does not
C12_Witness ==
    /\ mux_op = "stopreq"
    /\ mididev_clksrc
    /\ PrePhase = MUX_NEXT
    /\ mux_phase = MUX_STOP
    /\ Sent("out", "stop") # {}
    /\ Sent("clk", "stop") = {}

\* the positions of mux_log where a tick called its song callback
SongTics == SentAny("startcb") \cup SentAny("movecb")
\* the transport is between a start and the following stop
Started == mux_phase \in {MUX_START, MUX_FIRST, MUX_NEXT}

\* C13 (as claimed): between a start and the following stop, mux_curtic
\* always equals the number of song_movecb calls since the start.
C13_CurticCountsMoves == (Started /\ ~panicked) => mux_curtic = mux_nmove

\* C13 (amended): between a start and the following stop song_startcb is
\* called once, by the first tick fired after START, which sets mux_curtic to
\* 0; every later fired tick adds 1 to mux_curtic and calls song_movecb once;
\* every fired tick calls mux_sendtic before its song callback.  So from the
\* first fired tick on mux_curtic is the number of song_movecb calls since
\* the start; in START it still holds the value the last stop left.
C13_TickCallbacks ==
    [][ /\ mux_phase' = MUX_START => mux_nstart' = 0 /\ mux_nmove' = 0
        /\ mux_phase' = MUX_FIRST =>
              mux_nstart' = 1 /\ mux_nmove' = 0 /\ mux_curtic' = 0
        /\ mux_phase' = MUX_NEXT =>
              mux_nstart' = 1 /\ mux_nmove' = mux_curtic' /\ mux_curtic' >= 1
        /\ mux_phase' = MUX_START /\ mux_phase \notin {MUX_FIRST, MUX_NEXT} =>
              mux_curtic' = mux_curtic
        /\ (mux_phase \in {MUX_FIRST, MUX_NEXT} /\ mux_phase' \in {MUX_FIRST, MUX_NEXT}) =>
              /\ SentAny("startcb")' = {}
              /\ mux_curtic' = mux_curtic + Cardinality(SentAny("movecb")')
        /\ (mux_phase = MUX_START /\ mux_phase' \in {MUX_FIRST, MUX_NEXT}) =>
              /\ Cardinality(SentAny("startcb")') = 1
              /\ mux_curtic' = Cardinality(SentAny("movecb")')
              /\ \A i \in SentAny("movecb")' : \E j \in SentAny("startcb")' : j < i
        /\ \A i \in SongTics' :
              /\ i > 1
              /\ mux_log'[i-1].msg \in {"sendtic", "tic"}
              /\ \E j \in 1..(i-1) :
                    /\ mux_log'[j] = [dev |-> "mux", msg |-> "sendtic"]
                    /\ \A k \in (j+1)..(i-1) : mux_log'[k].msg = "tic"
        /\ Cardinality(SentAny("sendtic")') = Cardinality(SongTics')
      ]_vars

\* one operation fires the first tick and the next one: sendtic, song_startcb,
\* sendtic, song_movecb
C13_Witness ==
    /\ mux_phase = MUX_NEXT
    /\ PrePhase = MUX_START
    /\ mux_curtic >= 1
    /\ Cardinality(SentAny("startcb")) = 1
    /\ Cardinality(SentAny("movecb")) = mux_curtic

\* the mux ticks fired since the last start
NFired == mux_nstart + mux_nmove
\* started on a clock source
ClkRun == mididev_clksrc /\ Started /\ ~panicked

\* C14 (as claimed): while running on a clock source of rate r, after n
\* received clocks the number of mux ticks fired differs from n * m / r by
\* less than one tick (m is mux_ticrate).
C14_TicksFollowRate ==
    ClkRun =>
        LET d == NFired * clk_ticrate - mux_nclk * DEFAULT_TPU
        IN -clk_ticrate < d /\ d < clk_ticrate

\* C14 (amended): mux_ticcb fires one mux tick per r held in ticdelta and
\* only then adds m for the clock received, so the m of a clock counts from
\* the next clock on.  With d0 the ticdelta at the start, after n received
\* clocks F = (d0 + n * m - ticdelta) / r ticks have fired and ticdelta is in
\* m .. m + r - 1.  If a clock was received before the start, F differs
\* from n * m / r by less than one tick.  If the first clock after mux_open
\* is received while running (d0 = r), F = 1 + floor((n - 1) * m / r): with
\* m > r it stays behind n * m / r by m / r - 1 ticks or more, less than m / r.
C14_TicksFollowRateLate ==
    ClkRun =>
        LET r == clk_ticrate
            m == DEFAULT_TPU
            n == mux_nclk
            d == NFired * r - n * m
        IN /\ NFired * r = mux_d0 + n * m - clk_ticdelta
           /\ mux_d0 = r \/ mux_d0 \in m..(m + r - 1)
           /\ n >= 1 => clk_ticdelta \in m..(m + r - 1)
           /\ mux_d0 # r => (-r < d /\ d < r)
           /\ (mux_d0 = r /\ n >= 1) =>
                 /\ NFired = 1 + ((n - 1) * m) \div r
                 /\ -m < d /\ d <= r - m

\* device rate 48 against 96: the second clock received fires two mux ticks,
\* three in all, against 2 * 96 / 48 = 4
C14_Witness ==
    /\ ClkRun
    /\ clk_ticrate = 48
    /\ mux_d0 = 48
    /\ mux_nclk = 2
    /\ NFired = 3
    /\ Cardinality(SentAny("movecb")) = 2

C16_ChgTempo ==
    [][ mux_op' = "chgtempo" =>
          /\ mux_ticlength' \in Tempos
          /\ mux_phase' = mux_phase
          /\ mux_curpos' = mux_curpos
          /\ mux_curtic' = mux_curtic
          /\ IF mux_phase \in {MUX_FIRST, MUX_NEXT}
             THEN /\ mux_nextpos' = mux_nextpos + mux_ticlength' - mux_ticlength
                  /\ mux_nextpos' >= 0
             ELSE mux_nextpos' = mux_nextpos
          /\ mux_reqphase' = mux_reqphase /\ mux_manualstart' = mux_manualstart
          /\ Len(mux_trace') = 1 /\ mux_log' = <<>>
      ]_vars

\* the tempo is slowed down in the middle of a tick
C16_Witness ==
    /\ mux_op = "chgtempo"
    /\ mux_phase = MUX_NEXT
    /\ mux_ticlength = 750000
    /\ mux_nextpos = 750000
    /\ mux_curpos = 250000

\* C17: in STOP a tick (mux_ticcb) or a start (mux_startcb) from the clock
\* source is ignored: the phase stays STOP, mux_curtic, mux_curpos and
\* mux_nextpos are unchanged, no song callback is called and no byte is put
\* to a device.  mux_startcb changes the transport only in STARTWAIT.
C17_IgnoredInStop ==
    [][ /\ (mux_op' \in {"ticcb", "startcb"} /\ mux_phase = MUX_STOP) =>
              /\ mux_phase' = MUX_STOP
              /\ mux_curtic' = mux_curtic
              /\ mux_curpos' = mux_curpos
              /\ mux_nextpos' = mux_nextpos
              /\ Len(mux_trace') = 1
              /\ mux_log' = <<>>
              /\ out_ticdelta' = out_ticdelta
        /\ (mux_op' = "startcb" /\ mux_phase # MUX_STARTWAIT) =>
              /\ Mux' = [Mux EXCEPT !.trace = <<[ph |-> mux_phase', by |-> "pre"]>>]
              /\ mux_phase' = mux_phase
              /\ mux_log' = <<>>
        /\ (mux_op' = "startcb" /\ mux_phase = MUX_STARTWAIT) =>
              /\ mux_phase' = MUX_START
              /\ Sent("out", "start")' # {}
      ]_vars

\* a clock byte arrives in STOP: the clock source device counts it, the
\* transport does not move
C17_Witness ==
    /\ mux_op = "ticcb"
    /\ PrePhase = MUX_STOP
    /\ mux_phase = MUX_STOP
    /\ mux_log = <<>>
    /\ clk_ticdelta # clk_ticrate

(***************************************************************************)
(* Properties of the timeouts                                              *)
(***************************************************************************)

\* a - b as a signed number, both being unsigned values of the word
SDiff(a, b) ==
    LET d == (a - b + WORD) % WORD IN IF d >= HALF THEN d - WORD ELSE d

\* how far val lies after timo_abstime, going forward around the word
Ahead(val) == (val - timo_abstime + WORD) % WORD

QueueSorted ==
    \A i, j \in 1..Len(timo_queue) :
        i < j => SDiff(timo_val[timo_queue[i]], timo_val[timo_queue[j]]) <= 0

Range(s) == {s[i] : i \in 1..Len(s)}

\* the queued timeouts that expire within the next delta units of time
Due(delta) == {t \in Range(timo_queue) : Ahead(timo_val[t]) <= delta}

\* C19: a timo_update(delta), no timo_update having been given half the word
\* or more, calls the callback of every queued timeout that expires within
\* the delta, once each and in order of expiry, unlinks them and clears their
\* set flag, and leaves the timeouts that expire later queued in their order;
\* timo_abstime advances by delta modulo the word, wrapped or not.
C19_UpdateFiresDue ==
    [][(timo_op'.op = "update" /\ ~timo_big') =>
        LET delta == timo_op'.delta
            due == Due(delta)
        IN /\ timo_abstime' = (timo_abstime + delta) % WORD
           /\ Range(timo_fired') = due
           /\ Len(timo_fired') = Cardinality(due)
           /\ \A i, j \in 1..Len(timo_fired') :
                i < j => Ahead(timo_val[timo_fired'[i]]) <= Ahead(timo_val[timo_fired'[j]])
           /\ timo_queue' = SelectSeq(timo_queue, LAMBDA t : t \notin due)
           /\ \A t \in due : ~timo_set'[t]
           /\ \A t \in Timos \ due : timo_set'[t] = timo_set[t]
           /\ timo_val' = timo_val]_vars

\* the time was 2 before the wrap of the word, T1 was added with delta 1 and
\* T2 with delta 3, and timo_update(4) just called T1 then T2 (the claim's
\* example, 1000 before the wrap, deltas 500 and 1500 and an update of 2000,
\* in units of 500)
C19_Witness ==
    /\ timo_op = TimoOp("update", "none", 4)
    /\ timo_abstime = 2
    /\ timo_val["T1"] = WORD - 1
    /\ timo_val["T2"] = 1
    /\ timo_fired = <<"T1", "T2">>
    /\ ~timo_big

\* C20: timo_del(t) of a timeout that is not queued changes nothing; of a
\* queued one it unlinks t alone, keeping the others in their order, and
\* clears its set flag; it calls no callback and does not touch the time.  A
\* timeout enters the queue by a timo_add() of it only, and timo_update()
\* calls the callbacks of timeouts it found queued only: the callback of a
\* deleted timeout is not called unless it is added again.
C20_DelUnlinksOnly ==
    [][/\ (timo_op'.op = "del") =>
            LET t == timo_op'.t
            IN /\ timo_abstime' = timo_abstime
               /\ timo_val' = timo_val
               /\ timo_fired' = <<>>
               /\ IF t \in Range(timo_queue)
                  THEN /\ timo_queue' = SelectSeq(timo_queue, LAMBDA u : u # t)
                       /\ timo_set' = [timo_set EXCEPT ![t] = FALSE]
                  ELSE /\ timo_queue' = timo_queue
                       /\ timo_set' = timo_set
       /\ (timo_op'.op = "update") => Range(timo_fired') \subseteq Range(timo_queue)
       /\ \A t \in Timos :
            (t \notin Range(timo_queue) /\ t \in Range(timo_queue'))
                => (timo_op'.op = "add" /\ timo_op'.t = t)]_vars

\* three timeouts were added and the one queued between the two others was
\* just deleted: the two others are left queued, in their order
C20_Witness ==
    /\ timo_op.op = "del"
    /\ timo_nops = 4
    /\ Len(timo_queue) = 2
    /\ ~timo_set[timo_op.t]
    /\ SDiff(timo_val[timo_queue[1]], timo_val[timo_op.t]) < 0
    /\ SDiff(timo_val[timo_op.t], timo_val[timo_queue[2]]) < 0

(***************************************************************************)
(* Properties of the tracks                                                *)
(***************************************************************************)

\* the list of track o: the seqevs reached from o->first, then the eot of o
\* and nothing after it
EndsOnOwnEot(o) ==
    LET w == Walk(Trk, o)
    IN /\ Len(w) >= 1
       /\ Len(w) <= MaxSeqevs + 1
       /\ w[Len(w)] = eot(o)
       /\ se_next[eot(o)] = NULL
       /\ se_cmd[eot(o)] = "NULL"
       /\ \A k \in 1..(Len(w) - 1) : w[k] \in Seqevs /\ se_cmd[w[k]] # "NULL"
       /\ \A j, k \in 1..Len(w) : j # k => w[j] # w[k]
       /\ (Len(w) = 1) <=> (trk_first[o] = eot(o))

\* C21: after any sequence of track_init, seqev_ins, seqev_rm of events,
\* track_shift, track_chomp, track_clear and track_swap, following next from
\* the first of a track reaches the eot of that very track, which is the last
\* element (its next is NULL) and the only one without an event; the first
\* of a track without events is its eot.
C21_SentinelLast == \A o \in Tracks : EndsOnOwnEot(o)

\* track_swap() just gave track 1 two events and left track 2 without
\* events but with blank space
C21_Witness ==
    /\ trk_op.op = "swap"
    /\ Len(Walk(Trk, 1)) = 3
    /\ trk_first[2] = eot(2)
    /\ se_delta[eot(2)] > 0

\* C22: seqev_ins and seqev_rm of an event leave track_numtic of every track
\* as it was, track_shift(o, n) adds n to that of o and track_chomp(o) takes
\* from it the delta the eot of o had, in unsigned arithmetic; the other
\* track keeps its length.
C22_NumticFollowsOps ==
    [][\A o \in Tracks :
        LET old == track_numtic(Trk, o)
            new == track_numtic(Trk', o)
        IN /\ trk_op'.op \in {"ins", "rm"} => new = old
           /\ (trk_op'.op = "shift" /\ trk_op'.o = o) => new = (old + trk_op'.n) % WORD
           /\ (trk_op'.op = "chomp" /\ trk_op'.o = o)
                => new = (old - se_delta[eot(o)] + WORD) % WORD
           /\ (trk_op'.op \in {"shift", "chomp"} /\ trk_op'.o # o) => new = old]_vars

\* the only event of a track, 3 ticks after its start, was just removed: the
\* track is left with 3 ticks of blank space
C22_Witness ==
    /\ trk_op.op = "rm"
    /\ trk_first[trk_op.o] = eot(trk_op.o)
    /\ se_delta[eot(trk_op.o)] = 3
    /\ track_numtic(Trk, trk_op.o) = 3

\* the absolute tick of the k-th seqev of a list: the sum of the deltas up to it
RECURSIVE TicSum(_, _, _)
TicSum(h, w, k) == IF k = 0 THEN 0 ELSE (TicSum(h, w, k - 1) + h.delta[w[k]]) % WORD
\* the seqevs of track o with their absolute ticks, in list order
Timeline(h, o) ==
    LET w == Walk(h, o) IN [k \in 1..Len(w) |-> <<w[k], TicSum(h, w, k)>>]

\* s with x put before its k-th element
InsertAt(s, k, x) == SubSeq(s, 1, k - 1) \o <<x>> \o SubSeq(s, k, Len(s))

\* C23: seqev_ins(pos, se) gives se the delta of pos and zeroes that of pos:
\* se is linked just before pos at the absolute tick of pos, and every seqev
\* of the track, pos included, keeps its absolute tick and its place among
\* the others.  seqev_rm(pos) of an event adds the delta of pos to that of
\* the seqev after it: the seqevs left keep their absolute ticks and their
\* order.  The other track is left as it was.
C23_InsRmKeepTicks ==
    [][\A o \in Tracks :
        LET old == Timeline(Trk, o)
            new == Timeline(Trk', o)
            pos == trk_op'.pos
            at == CHOOSE k \in 1..Len(old) : old[k][1] = pos
        IN /\ (trk_op'.op = "ins" /\ trk_op'.o = o /\ ~panicked') =>
                /\ se_delta'[trk_op'.n] = se_delta[pos]
                /\ se_delta'[pos] = 0
                /\ new = InsertAt(old, at, <<trk_op'.n, old[at][2]>>)
           /\ (trk_op'.op = "rm" /\ trk_op'.o = o) =>
                /\ se_delta'[se_next[pos]] = (se_delta[se_next[pos]] + se_delta[pos]) % WORD
                /\ new = SelectSeq(old, LAMBDA e : e[1] # pos)
           /\ (trk_op'.op \in {"ins", "rm"} /\ trk_op'.o # o) => new = old]_vars

\* an event was just inserted before an event that lies 2 ticks after the one
\* before it, itself not at the start of the track: the new event took the 2
\* ticks and three events are on the track
C23_Witness ==
    /\ trk_op.op = "ins"
    /\ ~panicked
    /\ trk_op.pos \in Seqevs
    /\ se_delta[trk_op.n] = 2
    /\ se_prev[trk_op.n].kind = "next"
    /\ se_delta[trk_first[trk_op.o]] > 0
    /\ Len(Walk(Trk, trk_op.o)) = 4

\* the prev of each seqev of track o is the address of the pointer that
\* points to it: o->first for the first one, the next of the one before it
\* for the others
WellLinked(h, o) ==
    LET w == Walk(h, o)
    IN /\ Len(w) >= 1
       /\ h.prev[w[1]] = RefFirst(o)
       /\ \A k \in 2..Len(w) : h.prev[w[k]] = RefNext(w[k - 1])

\* the events of track o with their absolute ticks: its timeline less the eot
EventsOf(h, o) == LET tl == Timeline(h, o) IN SubSeq(tl, 1, Len(tl) - 1)

\* C24: track_swap(t1, t2) of two distinct tracks, empty or not, gives each of
\* them the events (at their ticks) and the trailing delta the other had;
\* each list ends on the eot of its own track and every prev is the address
\* of the pointer to its seqev; swapping the result again gives back every
\* field of both tracks and of their seqevs.
C24_SwapExchanges ==
    [][(trk_op'.op = "swap") =>
        LET t1 == trk_op'.o
            t2 == trk_op'.n
        IN /\ EventsOf(Trk', t1) = EventsOf(Trk, t2)
           /\ EventsOf(Trk', t2) = EventsOf(Trk, t1)
           /\ se_delta'[eot(t1)] = se_delta[eot(t2)]
           /\ se_delta'[eot(t2)] = se_delta[eot(t1)]
           /\ \A o \in Tracks : EndsOnOwnEot(o)' /\ WellLinked(Trk', o)
           /\ track_swap(Trk', t1, t2) = Trk]_vars

\* two tracks that both hold events, of different numbers and with
\* different trailing deltas, were just swapped
C24_Witness ==
    /\ trk_op.op = "swap"
    /\ Len(Walk(Trk, 1)) = 2
    /\ Len(Walk(Trk, 2)) = 3
    /\ se_delta[eot(1)] # se_delta[eot(2)]

(***************************************************************************)
(* Properties of the pool                                                  *)
(***************************************************************************)

LastPoolOp == pl_log[Len(pl_log)]

\* C25: whatever the interleaving of pool_new() and of pool_del() of
\* allocated entries, pool_new() returns an entry of the pool that its user
\* does not hold; no entry the user holds is on the free list, and no entry
\* is on the free list twice.
C25_NoAlias ==
    /\ [][(Len(pl_log') > Len(pl_log) /\ LastPoolOp'.op = "new" /\ ~panicked')
            => (LastPoolOp'.e \in (1..MaxPool) \ pl_live)]_vars
    /\ [](/\ \A i \in 1..Len(pl_first) : pl_first[i] \in (1..MaxPool) \ pl_live
          /\ \A i, j \in 1..Len(pl_first) : i # j => pl_first[i] # pl_first[j])

\* two entries were allocated, the first was released and pool_new() just
\* gave it again, the second still being held
C25_Witness ==
    /\ Len(pl_log) = 4
    /\ pl_log[1].op = "new" /\ pl_log[2].op = "new"
    /\ pl_log[3] = PoolOp("del", pl_log[1].e)
    /\ pl_log[4] = PoolOp("new", pl_log[1].e)
    /\ pl_live = {pl_log[1].e, pl_log[2].e}

\* the calls so far are all pool_new()
OnlyNews == \A i \in 1..Len(pl_log) : pl_log[i].op = "new"

\* C26: after pool_init() with MaxPool entries, the first MaxPool calls of
\* pool_new() without a pool_del() return that many distinct entries, and
\* pool_new() panics, returning nothing, exactly when the free list is empty.
C26_NewUntilEmpty ==
    /\ [](OnlyNews =>
            IF Len(pl_log) <= MaxPool
            THEN /\ ~panicked
                 /\ Cardinality({pl_log[i].e : i \in 1..Len(pl_log)}) = Len(pl_log)
                 /\ pl_live = {pl_log[i].e : i \in 1..Len(pl_log)}
                 /\ pl_live \subseteq 1..MaxPool
            ELSE panicked /\ Len(pl_log) = MaxPool + 1)
    /\ [][(Len(pl_log') > Len(pl_log) /\ LastPoolOp'.op = "new") =>
            IF pl_first = <<>>
            THEN panicked' /\ LastPoolOp'.e = NULL /\ pl_live' = pl_live
            ELSE ~panicked' /\ LastPoolOp'.e = Head(pl_first)]_vars

\* every entry was allocated, none released, and one more pool_new() panicked
C26_Witness ==
    /\ OnlyNews
    /\ Len(pl_log) = MaxPool + 1
    /\ Cardinality(pl_live) = MaxPool
    /\ panicked

(***************************************************************************)
(* Properties of statelist_dup, state_cancel and state_restore             *)
(***************************************************************************)

\* two results of statelist_lookup agree: both are null, or both are states
\* with the same event, phase and flags, STATE_CHANGED left aside
LookupAgree(a, b) ==
    IF a.id = 0 \/ b.id = 0 THEN a.id = 0 /\ b.id = 0
    ELSE /\ a.ev = b.ev
         /\ a.phase = b.phase
         /\ a.flags \ {STATE_CHANGED} = b.flags \ {STATE_CHANGED}

\* C27, as stated: after statelist_dup(dst, src), statelist_lookup gives for
\* every event agreeing results on dst and on src, whatever list src the
\* updates built, lists with nested states for one key included.
C27_DupAgrees ==
    (dup_done /\ ~panicked) =>
        \A ev \in Events :
            LookupAgree(statelist_lookup(dup_first, ev), statelist_lookup(sl_first, ev))

\* C28: state_cancel returns 0, writing no event, exactly when the phase of
\* the state has the LAST bit; otherwise it returns 1 with one event on the
\* device and channel of the state: a note-off of the same note for note-on
\* and key aftertouch states, the default channel aftertouch, the default
\* value of the same controller, or the pitch bend centre.
C28_CancelUndoes ==
    (rev_op = "cancel") =>
        LET st == rev_st
            rev == rev_out.ev
        IN /\ (rev_out.n = 0) <=> (EV_PHASE_LAST \in st.phase)
           /\ rev_out.n = 0 => (rev = NoEv /\ ~panicked)
           /\ rev_out.n # 0 =>
                /\ rev_out.n = 1 /\ ~panicked
                /\ rev.dev = st.ev.dev /\ rev.ch = st.ev.ch
                /\ st.ev.cmd \in {"NON", "KAT", "CAT", "XCTL", "BEND"}
                /\ st.ev.cmd \in {"NON", "KAT"} => (rev.cmd = "NOFF" /\ rev.v0 = st.ev.v0)
                /\ st.ev.cmd = "CAT" => (rev.cmd = "CAT" /\ rev.v0 = EV_CAT_DEFAULT)
                /\ st.ev.cmd = "XCTL" =>
                     (rev.cmd = "XCTL" /\ rev.v0 = st.ev.v0 /\ rev.v1 = EV_CTL_DEFVAL(st.ev))
                /\ st.ev.cmd = "BEND" => (rev.cmd = "BEND" /\ rev.v0 = EV_BEND_DEFAULT)

\* the open frame of controller 7 on device 1, channel 9 was cancelled by the
\* default value of that controller
C28_Witness ==
    /\ rev_op = "cancel"
    /\ rev_st.ev = [Ev("XCTL", 7, 9000) EXCEPT !.dev = 1, !.ch = 9]
    /\ rev_out = Rev(1, [Ev("XCTL", 7, 12700) EXCEPT !.dev = 1, !.ch = 9])

\* C29, as stated: state_restore returns 0, writing no event, for the states
\* of the note family, the BOGUS states and the states whose phase has LAST
\* without FIRST; for every other state it returns 1 with a copy of the
\* event of the state.
C29_RestoreZeroForNotes ==
    (rev_op = "restore") =>
        IF \/ EV_ISNOTE(rev_st.ev)
           \/ STATE_BOGUS \in rev_st.flags
           \/ (EV_PHASE_LAST \in rev_st.phase /\ EV_PHASE_FIRST \notin rev_st.phase)
        THEN rev_out = Rev(0, NoEv) /\ ~panicked
        ELSE rev_out = Rev(1, rev_st.ev) /\ ~panicked

\* C29, as the code does it: state_restore returns 0, writing no event, for
\* the BOGUS states, of the note family or not; it panics for the other
\* states of the note family; it returns 0 for the other states whose phase
\* has LAST without FIRST, and 1 with a copy of the event of the state for
\* all the rest.
C29_RestorePanicsForNotes ==
    (rev_op = "restore") =>
        IF STATE_BOGUS \in rev_st.flags THEN rev_out = Rev(0, NoEv) /\ ~panicked
        ELSE IF EV_ISNOTE(rev_st.ev) THEN panicked /\ rev_out.n = 0 /\ rev_out.ev = NoEv
        ELSE IF EV_PHASE_LAST \in rev_st.phase /\ EV_PHASE_FIRST \notin rev_st.phase
             THEN rev_out = Rev(0, NoEv) /\ ~panicked
        ELSE rev_out = Rev(1, rev_st.ev) /\ ~panicked

\* state_restore was given the state of a sounding note, not BOGUS, and
\* called panic()
C29_Witness ==
    /\ rev_op = "restore"
    /\ rev_st.ev.cmd = "NON"
    /\ STATE_BOGUS \notin rev_st.flags
    /\ panicked

\* ---------------------------------------------------------------------
\* MIDI clock sent to the devices

\* C30: for the sendclk device that is not the clock source, with device rate
\* r and system rate m, the mux ticks fired since the last start being n, the
\* clock bytes put to it by mux_sendtic since that start number
\* floor(n * r / m); with r = 2 * m that is two per mux tick.  An operation
\* puts no clock, start or stop byte to the clock source device.
C30_ClockFollowsRate ==
    /\ out_ntic = (NFired * out_ticrate) \div DEFAULT_TPU
    /\ out_ticdelta = out_ticrate + NFired * out_ticrate - out_ntic * DEFAULT_TPU
    /\ out_ticrate = 2 * DEFAULT_TPU => out_ntic = 2 * NFired
    /\ \A what \in {"tic", "start", "stop"} : Sent("clk", what) = {}

\* at rate 192 against 96 the second mux tick after a start has put two clock
\* bytes, four in all
C30_Witness ==
    /\ out_ticrate = 2 * DEFAULT_TPU
    /\ NFired = 2
    /\ out_ntic = 4
    /\ Cardinality(Sent("out", "tic")) = 2
    /\ ~panicked

\* a clock source is configured, the transport runs on it and the operation
\* put a clock byte to the output device
C30_WitnessSource ==
    /\ ClkRun
    /\ NFired >= 2
    /\ out_ntic = NFired
    /\ Sent("out", "tic") # {}

(***************************************************************************)
(* Properties of the event loop                                            *)
(***************************************************************************)

\* the positions of wait_log where `what` was logged for, put to or called
\* on device `d`
WSent(d, what) == {i \in 1..Len(wait_log) : wait_log[i] = [dev |-> d, msg |-> what]}

\* C31 (as claimed): active sensing is put and flushed each time the 250 ms
\* of osensto elapse under mux_timercb and the countdown restarts at 250 ms;
\* received active sensing starts the 350 ms of isensto, every read restarts
\* them, and their expiry signals the device lost: the callback of a lost
\* device, mux_errorcb, is called for it.
C31_SenseLost ==
    \A d \in WaitDevSet :
        WSent(d, "sensing timeout, disabled") # {} => WSent(d, "errorcb") # {}

\* the sensing countdowns follow the time given to mux_timercb
SenseInv ==
    \A d \in WaitDevSet :
        /\ dev_osensto[d] \in 1..MIDIDEV_OSENSTO
        /\ dev_osensto[d] = MIDIDEV_OSENSTO - (mux_wallclock - sense_oat[d])
        /\ WSent(d, "putack") # {} <=>
              (wait_delta > 0 /\ dev_osensto[d] = MIDIDEV_OSENSTO)
        /\ \A i \in WSent(d, "putack") :
              /\ i < Len(wait_log) /\ wait_log[i + 1] = [dev |-> d, msg |-> "flush"]
              /\ WSent(d, "putack") = {i}
        /\ dev_isensto[d] \in 0..MIDIDEV_ISENSTO
        /\ dev_isensto[d] > 0 =>
              dev_isensto[d] = MIDIDEV_ISENSTO - (mux_wallclock - sense_iat[d])
        /\ WSent(d, "sensing timeout, disabled") # {} => dev_isensto[d] = 0
        /\ WSent(d, "errorcb") # {} =>
              /\ mode_in(d) /\ dev_eof[d]
              /\ wait_in.rev.in = "eof" \/ wait_in.rev.hup

\* one wait: what it read from device `d` and what became of isensto
SenseStep ==
    wait_n' = wait_n + 1 =>
        \A d \in WaitDevSet :
            LET r == wait_in'.rev
                read == mode_in(d) /\ ~dev_eof[d] /\ r.in \in {"data", "ack"}
                start == read /\ (dev_isensto[d] > 0 \/ r.in = "ack")
                timeout == WSent(d, "sensing timeout, disabled")' # {}
            IN /\ start => sense_iat'[d] = mux_wallclock
               /\ (read /\ r.in = "ack" /\ dev_isensto[d] = 0) =>
                     WSent(d, "sensing enabled")' # {}
               /\ ~start => sense_iat'[d] = sense_iat[d]
               /\ (~start /\ dev_isensto[d] = 0) => (dev_isensto'[d] = 0 /\ ~timeout)
               /\ timeout <=>
                     /\ start \/ dev_isensto[d] > 0
                     /\ mux_wallclock' - sense_iat'[d] >= MIDIDEV_ISENSTO
               /\ timeout => dev_eof'[d] = (dev_eof[d] \/ WSent(d, "errorcb")' # {})

\* C31 (amended): while the mux is open, for every device, active sensing is
\* put and flushed each time the 250 ms of osensto elapse under mux_timercb
\* and the countdown restarts at 250 ms; received active sensing starts the
\* 350 ms of isensto when they are not running, every read of bytes from the
\* device restarts them while they run, and their expiry disables them and
\* logs "sensing timeout, disabled", until active sensing is received again:
\* the device is not marked lost and mux_errorcb is not called for it, which
\* happens only on end of file or hang-up.
C31_SenseDisabled == [](SenseInv) /\ [][SenseStep]_vars

\* the watchdog of the input device, started by an earlier wait, expires in
\* a wait that reads nothing, while active sensing is put to the device
C31_Witness ==
    /\ wait_n >= 2
    /\ wait_in.rev = [in |-> "none", hup |-> FALSE]
    /\ WSent("in", "sensing timeout, disabled") # {}
    /\ WSent("in", "putack") # {}
    /\ WSent("out", "putack") # {}
    /\ ~dev_eof["in"]

\* C32 (as claimed): every delta that mux_mdep_wait passes to mux_timercb is
\* positive and below 24,000,000.
C32_DeltaPositive == wait_delta # -1 => wait_delta \in 1..(24 * 1000000 - 1)

\* the clock readings since mux_mdep_open that were not ignored as huge
Kept == delta_nsec(ts_last, Stamp0) - wait_lost

\* the time given to mux_timercb is the time kept, less the fraction of a
\* unit each call truncates: no ignored time comes back
WaitInv ==
    /\ wait_delta = -1 \/ wait_delta \in 0..(24 * 1000000 - 1)
    /\ Kept >= 0
    /\ mux_wallclock <= usec24(Kept)
    /\ mux_wallclock >= usec24(Kept) - wait_n

\* one wait whose clock reading is d nanoseconds after ts_last
WaitStep ==
    wait_n' = wait_n + 1 =>
        LET ts == wait_in'.ts
            d == delta_nsec(ts, ts_last)
        IN /\ (d <= 0 \/ d >= SEC) =>
                 /\ wait_delta' = -1
                 /\ UNCHANGED <<mux_wallclock, timovars, muxvars, dev_osensto>>
           /\ d <= 0 => ts_last' = ts_last
           /\ d > 0 => ts_last' = ts
           /\ d >= SEC => wait_lost' = wait_lost + d
           /\ (d > 0 /\ d < SEC) =>
                 /\ wait_delta' = usec24(d)
                 /\ wait_delta' = 24 * (d \div 1000) + (24 * (d % 1000)) \div 1000
                 /\ wait_delta' = 0 <=> d < 42
                 /\ mux_wallclock' = mux_wallclock + wait_delta'
                 /\ timo_abstime' = u32(timo_abstime + wait_delta')
                 /\ Timed => mux_elapsed' = mux_elapsed + wait_delta'
                 /\ wait_lost' = wait_lost

\* C32 (amended): in mux_mdep_wait an elapsed delta that is negative, zero or
\* at least one second is discarded: mux_timercb is not called, neither the
\* timeout queue nor the transport advances, and no discarded time is
\* replayed by a later wake.  Every delta passed to mux_timercb is below
\* 24,000,000 and not negative; it is zero when less than 42 nanoseconds
\* elapsed, and these are dropped as well.
C32_DeltaFiltered == [](WaitInv) /\ [][WaitStep]_vars

\* after a delta of more than a second was ignored, a wake 41 nanoseconds
\* later calls mux_timercb(0) while the transport waits for its first tick
C32_Witness ==
    /\ wait_delta = 0
    /\ wait_lost >= SEC
    /\ delta_nsec(ts_last, Stamp0) = wait_lost + 41
    /\ mux_phase = MUX_START
    /\ mux_op = "timercb"

(***************************************************************************)
(* Properties of nested frames                                             *)
(***************************************************************************)

\* the positions in the list `l` of the states of the key of `ev`
KeyStates(l, ev) == {i \in 1..Len(l) : state_match(l[i], ev)}
\* those that are open and not bogus
OpenStates(l, ev) ==
    {i \in KeyStates(l, ev) : l[i].phase # {EV_PHASE_LAST} /\ STATE_BOGUS \notin l[i].flags}

\* k events of phase FIRST then as many of phase LAST for the key of note 60
\* open and close k frames: the open states of the key number the frames
\* still open, and after an outdate no state of the key is left
NestInv ==
    (~panicked /\ sl_nest.pat \in {"F", "L"}) =>
        /\ Cardinality(OpenStates(sl_first, NoteOn60)) = sl_nest.first - sl_nest.last
        /\ (sl_nest.first = sl_nest.last /\ sl_nest.out) => KeyStates(sl_first, NoteOn60) = {}

\* one statelist_update of an event of phase FIRST or of phase LAST whose
\* key has an open state that is not bogus, `i` being the first in the list
NestStep ==
    (sl_op'.op = "update" /\ ~panicked' /\ OpenStates(sl_first, sl_op'.ev) # {}) =>
        LET ev == sl_op'.ev
            open == OpenStates(sl_first, ev)
            i == CHOOSE x \in open : \A y \in open : x <= y
            kept(k) == \E j \in 1..Len(sl_first') :
                          /\ sl_first'[j].id = sl_first[k].id
                          /\ sl_first'[j].phase = sl_first[k].phase
                          /\ sl_first'[j].ev = sl_first[k].ev
        IN /\ ev_phase(ev) = {EV_PHASE_FIRST} =>
                 /\ {STATE_NEW, STATE_NESTED} \subseteq Head(sl_first').flags
                 /\ Head(sl_first').ev = ev
                 /\ \A k \in open : Head(sl_first').id # sl_first[k].id
                 /\ \A k \in open : kept(k)
                 /\ 1 \in OpenStates(sl_first', ev)
                 /\ Cardinality(OpenStates(sl_first', ev)) = Cardinality(open) + 1
           /\ ev_phase(ev) = {EV_PHASE_LAST} =>
                 /\ \E j \in 1..Len(sl_first') :
                       /\ sl_first'[j].id = sl_first[i].id
                       /\ sl_first'[j].phase = {EV_PHASE_LAST}
                 /\ \A k \in open \ {i} : kept(k)
                 /\ Cardinality(OpenStates(sl_first', ev)) = Cardinality(open) - 1

\* C33: an event of phase FIRST whose key matches an open state that is not
\* bogus pushes a new state flagged NEW and NESTED at the head and leaves the
\* older open state in the list; each later event of phase LAST for that key
\* terminates the most recently opened frame still open; so k FIRST events
\* followed by k LAST events for the key and one statelist_outdate leave no
\* state for the key, whatever outdates came in between.
C33_NestedFrames == [](NestInv) /\ [][NestStep]_vars

\* two frames of note 60 were opened, an outdate came in between, both were
\* closed and an outdate purged them
C33_Witness ==
    /\ sl_nest = [first |-> 2, last |-> 2, pat |-> "L", out |-> TRUE]
    /\ sl_hist = <<Op("more", NoEv)>>
    /\ sl_op.op = "outdate"
    /\ sl_first = <<>>
    /\ Len(state_pool) = MaxStates
    /\ ~panicked

\* position of `x` in the sequence `s` (0: not in it)
Pos(s, x) == IF \E i \in 1..Len(s) : s[i] = x THEN CHOOSE i \in 1..Len(s) : s[i] = x ELSE 0

\* timeout x is to fire before timeout y: it expires earlier, or at the same
\* time and was added first (`added`: the order of the timo_add calls)
FiresFirst(added, x, y) ==
    \/ SDiff(timo_val[x], timo_val[y]) < 0
    \/ timo_val[x] = timo_val[y] /\ Pos(added, x) < Pos(added, y)

\* the queue is in firing order
FifoInv ==
    \A i, j \in 1..Len(timo_queue) :
        i < j => FiresFirst(timo_added, timo_queue[i], timo_queue[j])

\* a timo_add links its timeout after the queued ones that expire earlier or
\* at the same time and before the ones that expire later, the others
\* keeping their order; a timo_update fires in that order
FifoStep ==
    /\ timo_op'.op = "add" =>
          LET t == timo_op'.t
              p == Pos(timo_queue', t)
          IN /\ p > 0
             /\ \A i \in 1..Len(timo_queue') :
                   i # p => (i < p <=> SDiff(timo_val'[timo_queue'[i]], timo_val'[t]) <= 0)
             /\ timo_queue = SubSeq(timo_queue', 1, p - 1)
                                \o SubSeq(timo_queue', p + 1, Len(timo_queue'))
    /\ timo_op'.op = "update" =>
          /\ \A i, j \in 1..Len(timo_fired') :
                i < j => FiresFirst(timo_added, timo_fired'[i], timo_fired'[j])
          /\ \A i \in 1..Len(timo_fired'), j \in 1..Len(timo_queue') :
                FiresFirst(timo_added, timo_fired'[i], timo_queue'[j])

\* C34: timo_add inserts the new timeout after every queued timeout whose
\* expiry is earlier than or equal to its own, so timeouts with equal expiry
\* fire in the order they were added, and a timeout added later with a
\* strictly earlier expiry fires before queued ones with a later expiry; no
\* timo_update was given half the word or more.
C34_AddFifo == [](~timo_big => FifoInv) /\ [][~timo_big' => FifoStep]_vars

\* a timo_add just linked T3, which expires first, at the head of the queue,
\* before T2 and T1, which expire at the same time and stay in the order of
\* their timo_add
C34_Witness ==
    /\ ~timo_big
    /\ timo_op.op = "add" /\ timo_op.t = "T3"
    /\ timo_added = <<"T2", "T1", "T3">>
    /\ timo_queue = <<"T3", "T2", "T1">>
    /\ timo_val["T2"] = timo_val["T1"]
    /\ SDiff(timo_val["T3"], timo_val["T2"]) < 0

\* one timo_update whose callbacks may schedule their timeouts again
RearmStep ==
    timo_op'.op = "update" =>
        /\ Len(timo_seen') = Len(timo_fired')
        /\ \A i \in 1..Len(timo_seen') :
              /\ timo_seen'[i].t = timo_fired'[i]
              /\ ~timo_seen'[i].set /\ ~timo_seen'[i].linked
        /\ \A i, j \in 1..Len(timo_fired') : i < j => timo_fired'[i] # timo_fired'[j]
        /\ Len(timo_fired') <= Len(timo_queue)
        /\ Range(timo_fired') \subseteq Due(timo_op'.delta)
        /\ \A t \in Range(timo_fired') :
              IF timo_cb[t] > 0
              THEN /\ timo_set'[t] /\ t \in Range(timo_queue')
                   /\ timo_val'[t] = u32(timo_abstime' + timo_cb[t])
                   /\ timo_abstime' = u32(timo_abstime + timo_op'.delta)
              ELSE ~timo_set'[t] /\ t \notin Range(timo_queue')

\* C35: a callback may schedule its own timeout again from inside
\* timo_update: when the callback runs the timeout is unlinked and its set
\* flag is cleared, the new expiry counts from the timo_abstime already
\* advanced, so with a delta of at least 1 and below half the word the
\* callback is not called again by the same timo_update, which makes no more
\* calls than timeouts were queued, however many callbacks do so.
C35_CallbackRearms == [][RearmStep]_vars

\* one timo_update called the callbacks of three timeouts and each of them
\* scheduled its timeout again
C35_Witness ==
    /\ timo_op.op = "update"
    /\ Len(timo_fired) = 3
    /\ Len(timo_queue) = 3
    /\ \A t \in Timos : timo_cb[t] > 0 /\ timo_set[t]
    /\ \E t \in Timos : timo_cb[t] = 1

\* Properties of the manual start

\* the transport was started by mux_startreq(manualstart # 0) with no clock
\* and no MTC source, and waits for its first tick
ManualWait == NoSource /\ mux_manualstart # 0 /\ mux_phase = MUX_START /\ ~panicked

\* one step taken while the manual start waits
ManualStep ==
    ManualWait =>
        /\ mux_op' = "timercb" =>
              /\ mux_phase' = MUX_START
              /\ mux_curtic' = mux_curtic
              /\ mux_nstart' = mux_nstart
              /\ Sent("song", "startcb")' \subseteq Sent("song", "startcb")
              /\ ~panicked'
        /\ mux_phase' = MUX_FIRST =>
              /\ mux_op' = "manualtic"
              /\ mux_nstart' = mux_nstart + 1
              /\ mux_curtic' = 0

\* C36: after mux_startreq(manualstart # 0) with no clock or MTC source the
\* timer never triggers tick 0: a mux_timercb call, whatever time has elapsed,
\* leaves the phase START, does not call song_startcb and does not change
\* mux_curtic; only a tick given directly to mux_ticcb moves the transport
\* to FIRST_TIC.
C36_ManualStartWaits == [][ManualStep]_vars

\* the timer ran past the start delay and past one more tick length while
\* the manual start still waits
C36_Witness ==
    /\ ManualWait
    /\ mux_op = "timercb"
    /\ mux_elapsed >= MUX_START_DELAY + mux_ticlength
    /\ mux_nextpos = mux_ticlength
    /\ mux_nstart = 0

\* Properties of the tempo while the transport runs

\* C37: whenever the phase is FIRST_TIC or NEXT_TIC mux_nextpos equals
\* mux_ticlength, after any sequence of mux_startreq, mux_startcb, mux_ticcb,
\* mux_mtctick, mux_timercb and mux_chgtempo calls, tempo changes made in
\* STARTWAIT or START and by the song callbacks during a tick included; so
\* mux_chgtempo, which adds the new tick length to mux_nextpos and subtracts
\* the old one, never goes below zero and leaves mux_nextpos at the new length.
C37_NextposIsTicLength ==
    (mux_phase \in {MUX_FIRST, MUX_NEXT} /\ ~panicked) =>
        /\ mux_nextpos = mux_ticlength
        /\ \A ticlength \in Tempos :
              /\ mux_nextpos + ticlength - mux_ticlength >= 0
              /\ mux_chgtempo(Mux, ticlength).nextpos = ticlength

\* a timer tick whose song_movecb changed the tempo, after the tempo was
\* changed before the first tick
C37_Witness ==
    /\ mux_phase = MUX_NEXT /\ ~panicked
    /\ mux_op = "timercb"
    /\ Sent("song", "movecb") # {}
    /\ Sent("mux", "chgtempo") # {}
    /\ mux_chg
    /\ mux_ticlength = 750000
    /\ mux_nextpos = 750000

\* Properties of the allocation of states

RECURSIVE links_walk(_, _, _)
\* the slots reached from slot st by following next, at most n of them
links_walk(h, st, n) ==
    IF st = 0 \/ n = 0 THEN <<>> ELSE <<st>> \o links_walk(h, h.next[st], n - 1)

\* the pointers of list o link the states of l, in order, and each prev
\* points to the field that points to its state
LinksOk(o, l) ==
    /\ links_walk(st_links, st_links.first[o], Cardinality(Slots) + 1) = StateIds(l)
    /\ \A i \in 1..Len(l) :
          st_links.prev[l[i].id] =
              IF i = 1 THEN [o |-> o, st |-> 0] ELSE [o |-> "", st |-> l[i-1].id]

\* the slots allocated from state_pool
Allocated == Slots \ Range(state_pool)

Stale(l) ==
    \E i \in 1..Len(l) : STATE_CHANGED \in l[i].flags \/ l[i].phase = {EV_PHASE_LAST}

\* C39, as stated: whenever a list holds a state with CHANGED set or of phase
\* exactly LAST its changed flag is set, so that the next statelist_outdate
\* purges or clears it, after any sequence of statelist_init,
\* statelist_update, statelist_outdate and statelist_dup, for the list that
\* is updated and for the copy made by statelist_dup.
C39_ChangedCoversStale ==
    /\ Stale(sl_first) => sl_changed
    /\ Stale(dup_first) => dup_changed

\* Properties of the size recorded by the pool

\* C40, as stated: after pool_init(o, name, itemsize, N) the itemnum recorded
\* by the pool equals N, the number of entries linked on the free list by
\* pool_init, and pool_new and pool_del never change it.
C40_ItemnumIsSize ==
    /\ pl_itemnum = MaxPool
    /\ pl_itemnum = Len(pl_first) + Cardinality(pl_live)

====
